---- MODULE Spec2Model ----
(***************************************************************************)
(* A model of the Archiveopteryx server core.                              *)
(*                                                                         *)
(* Part 1: the PostgreSQL client (src/db/postgres.cpp): a pool of          *)
(* Postgres handles, the shared queue Database::queries, Transactions and  *)
(* their queues, and a PostgreSQL backend that answers each handle.        *)
(* Part 2: the Queries that the EXPUNGE handler builds                      *)
(* (src/imap/handlers/expunge.cpp).                                         *)
(***************************************************************************)
EXTENDS Integers, Sequences, FiniteSets, TLC

(***************************************************************************)
(* Bounds of the model.                                                    *)
(***************************************************************************)
MaxQuery == 2

\* The mailbox holds the messages with UIDs 1..MaxUid.
MaxUid == 2

\* The mailbox's nextmodseq is at most MaxModSeq when the command starts.
MaxModSeq == 2

\* An IMAP connection runs at most MaxCommand commands.
MaxCommand == 4

\* The client of an AUTHENTICATE sends at most MaxLine lines.
MaxLine == 4

\* UIDVALIDITY values of the mailboxes that exist before a RENAME.
MaxUidvalidity == 2

\* A ManageSieve client sends at most MaxInput lines or literals.
MaxInput == 3

\* A Sieve script has at most MaxScript commands at the top level.
MaxScript == 3

\* The pool has two handles.  The TCP connection of the second one stays
\* pending: it is a member of the pool that can fail or be shut down, and
\* the protocol is followed on the first one.
Handles == {1, 2}
Connectable == {1}
Queries == 1..MaxQuery
Txns == {1}
Names == {"", "s"}
\* The Queries submitted outside a Transaction: a prepared statement and an
\* unnamed copy.  Inside one: BEGIN, a prepared statement and COMMIT/ROLLBACK.
Shapes ==
    {[name |-> "s", copy |-> FALSE], [name |-> "", copy |-> TRUE]}
\* (server is a Unix socket, security is on)
Configurations == {<<TRUE, TRUE>>, <<FALSE, TRUE>>, <<FALSE, FALSE>>}

VARIABLES
    unixSocket,     \* server().protocol() == Endpoint::Unix
    security,       \* Configuration::toggle( Configuration::Security )
    dbQueries,      \* Database::queries
    handles,        \* the pool's list of handles (addHandle/removeHandle)
    nq,             \* number of Query objects created so far
    query,          \* the Query objects
    txn,            \* the Transaction objects
    pg,             \* PgData of each Postgres handle
    dbstate,        \* Database::state() of each handle
    cstate,         \* Connection::state() of each handle
    srv,            \* the backend serving each handle
    sentLog,        \* history: the Queries each handle has sent, in order
    handshake,      \* history: "auth" once AuthenticationOk has arrived,
                    \*          "ready" once a ReadyForQuery has followed it
    reconnects,     \* history: close()+connect() done by unknown()
    disasters,      \* history: Log::Disaster lines written by unknown()
    uidCommand,     \* Expunge: ExpungeData::uid (UID EXPUNGE)
    d,              \* Expunge: the rest of ExpungeData
    cmd,            \* Expunge: Command::state() and the tagged response
    enqueued,       \* Expunge: the Queries enqueued in d->t, in order
    rowsLeft,       \* Expunge: rows of findUids not yet delivered
    flagged,        \* table flags: the UIDs that carry \Deleted
    mailbox_messages,   \* table mailbox_messages: UID -> modseq
    deleted_messages,   \* table deleted_messages: the UIDs in it
    nextmodseq,     \* table mailboxes: column nextmodseq
    nextModSeq,     \* Mailbox::nextModSeq(), the value in memory
    sessionMsgs,    \* the UIDs in the ImapSession
    ocSent,         \* the nextmodseq values announced by OCClient::send
    compress,       \* Compress: the IMAP connection's buffers and output
    auth,           \* Authenticate: the command, its mechanism, the input
    ren,            \* Rename: the mailboxes in memory and in the database
    sv,             \* ManageSieve: the connection, its input and commands
    ss,             \* SieveScript: a script and what parse() made of it
    msc,            \* ManageSieveCommandData and the tables of its commands
    sel,            \* a Selector tree and what simplify() makes of it
    abnf,           \* the AbnfParserData of an AbnfParser
    sa,             \* two sessions of one user that run SETACTIVE
    bf              \* the ByteForwarders and the calls of setSibling

pgvars == <<unixSocket, security, dbQueries, handles, nq, query, txn, pg,
            dbstate, cstate, srv, sentLog, handshake, reconnects, disasters>>

expungevars == <<uidCommand, d, cmd, enqueued, rowsLeft, flagged,
                 mailbox_messages, deleted_messages, nextmodseq, nextModSeq,
                 sessionMsgs, ocSent>>

\* The variables of the parts after part 2.
extravars == <<compress, auth, ren, sv, ss, msc, sel, abnf, sa, bf>>

vars == <<pgvars, expungevars, extravars>>

\* An IMAP connection: no filter on either buffer, nothing written.
NewImap ==
    [readFilters |-> 0, writeFilters |-> 0, out |-> <<>>, commands |-> 0]

NoCompress == compress = NewImap

\* Authenticate::Authenticate(): m( 0 ), r( 0 ), on a connection whose
\* input nobody has reserved.  edges is the history of the mechanism's
\* changes of state, parsed the number of other commands parsed.
NewAuthenticate ==
    [t |-> "", m |-> "None", r |-> "None", state |-> "Executing",
     response |-> "", reserved |-> FALSE, accessPermitted |-> TRUE,
     challenges |-> 0, lines |-> 0, parsed |-> 0, edges |-> {},
     protocol |-> "imap", login |-> "", authenticated |-> FALSE]

NoAuthenticate == auth = NewAuthenticate

\* Mailbox names: two top-level mailboxes and a child of each.
Names2 ==
    {<<"a">>, <<"b">>, <<"a", "c">>, <<"b", "c">>}

\* A name without a mailbox row: Mailbox::obtain gives 0 or a synthetic
\* mailbox.
NoMailbox == [id |-> 0, uidnext |-> 1, uidvalidity |-> 1, deleted |-> FALSE]

\* RenameData::RenameData
NewRenameData ==
    [from |-> <<>>, toName |-> <<>>, renames |-> <<>>, queries |-> <<>>,
     ready |-> FALSE]

NewRename ==
    [mailboxes |-> [n \in Names2 |-> NoMailbox], rows |-> {},
     d |-> NewRenameData, state |-> "Unparsed", ok |-> TRUE,
     response |-> "", before |-> {}]

NoRename == ren = NewRename

\* ManageSieveData::ManageSieveData and the constructor of the server.
\* buf is the read buffer, out the responses written after the banner,
\* executed the ids of the commands in the order their execution started.
\* logout is the id of the LOGOUT that has run, violation the number of
\* commands created when the first protocol violation was answered
\* (-1: none yet).  reader is the id of the command lines are handed to
\* (0: none), user the login of the user set.  parsed records each
\* command created with the first word of its line and the state it was
\* created in, ran each call of execute() with the state it was made in.
\* tooLong is what the read buffer started with when "Line too long" was
\* sent ("none": not sent, "empty": the buffer was empty).
NewManageSieve ==
    [server |-> "ManageSieve", state |-> "Unauthorised",
     conn |-> "Connected", hasTls |-> FALSE, reserved |-> FALSE,
     readingLiteral |-> FALSE, literalSize |-> 0, arg |-> <<>>,
     buf |-> <<>>, sent |-> 0, commands |-> <<>>, out |-> <<>>,
     executed |-> <<>>, received |-> 0, created |-> 0, logout |-> 0,
     violation |-> -1, reader |-> 0, user |-> "", parsed |-> {},
     ran |-> {}, tooLong |-> "none"]

NoSieve == sv = NewManageSieve

\* SieveScriptData::SieveScriptData: no script, no errors.  needed is
\* SieveParser::extensionsNeeded.
NewSieveScript ==
    [script |-> <<>>, parsed |-> FALSE, errors |-> {}, needed |-> {}]

NoScript == ss = NewSieveScript

\* The home of the user, d->sieve->user()->home(), as the parts of its name.
home == <<"users", "u">>

\* The mailboxes Mailbox::obtain is asked for, by the parts of their names.
MailboxNames ==
    {home, <<"users", "u", "in">>, <<"users", "u", "x">>,
     <<"users", "u", "y">>, <<"users", "o">>, <<"users", "o", "in">>,
     <<"users", "o", "new">>}

NoTransaction == [state |-> "None", queries |-> <<>>]

\* ManageSieveCommandData, with the tables its commands read and write:
\* the rows of table scripts that belong to the user and, for each
\* mailbox, whether it exists, is deleted or is only a synthetic name.
NewManageSieveCommand ==
    [scripts |-> {},
     mailboxes |->
        [m \in MailboxNames |->
            IF m \in {<<"users", "u", "x">>, <<"users", "o", "new">>}
            THEN "synthetic"
            ELSE IF m = <<"users", "u", "y">> THEN "deleted"
            ELSE "exists"],
     command |-> "", name |-> "", script |-> <<>>, create |-> {},
     t |-> NoTransaction, rows |-> {}, step |-> 0, wait |-> "",
     no |-> "", ok |-> {}, done |-> TRUE]

NoManageSieveCommand == msc = NewManageSieveCommand

\* A Selector whose simplify() has not been called.
NewSelector ==
    [tree |-> <<>>, simplified |-> <<>>, again |-> <<>>, notnot |-> <<>>,
     calls |-> 0, negated |-> FALSE, sql |-> <<>>, asked |-> FALSE]

NoSelector == sel = NewSelector

\* AbnfParserData( 0 ): the cursor at the start, no error, no older data,
\* mark 1.
NewAbnfParserData == [at |-> 0, err |-> "", mark |-> 1]

\* AbnfParser::AbnfParser: d is the list of AbnfParserData that starts at
\* d and goes on along next; saved is the history of what pos() and
\* error() were when mark() returned each mark that is still in the list;
\* restored is the mark the last call was a restore( m ) to, or 0.
NewAbnfParser ==
    [d |-> <<NewAbnfParserData>>, saved |-> <<>>, restored |-> 0]

NoAbnfParser == abnf = NewAbnfParser

\* The scripts table of one user as the committed set of active names,
\* and per session the Transaction of its SETACTIVE: the rows it has
\* locked, the values it has written (on, off), the rows its update found
\* and the command's reply.
NewSetActive ==
    [active |-> {},
     tx |-> [s \in {1, 2} |->
               [name |-> "", pc |-> "none", found |-> FALSE, locks |-> {},
                on |-> {}, off |-> {}, cands |-> {}, response |-> ""]]]

NoSetActive == sa = NewSetActive

\* ByteForwarder::ByteForwarder: s( 0 ) for each of three forwarders.
\* stack holds the active calls of setSibling, innermost last; last is the
\* outermost call with the sibling the forwarder had before it; overflow
\* says that the calls have used up the stack.
NewByteForwarder ==
    [s |-> [f \in {1, 2, 3} |-> 0], stack |-> <<>>, last |-> <<>>,
     overflow |-> FALSE]

NoByteForwarder == bf = NewByteForwarder

\* Nothing of the parts after part 2 exists.
NoExtra == NoCompress /\ NoAuthenticate /\ NoRename /\ NoSieve /\ NoScript /\ NoManageSieveCommand /\ NoSelector /\ NoAbnfParser /\ NoSetActive /\ NoByteForwarder

\* ExpungeData::ExpungeData()
NewExpungeData ==
    [uids |-> {}, modseq |-> 0, s |-> FALSE, t |-> "None",
     findUids |-> "None", expunge |-> FALSE]

\* No EXPUNGE command exists.
NoExpunge ==
    /\ uidCommand = FALSE
    /\ d = NewExpungeData
    /\ cmd = [state |-> "Finished", response |-> ""]
    /\ enqueued = <<>>
    /\ rowsLeft = {}
    /\ flagged = {}
    /\ mailbox_messages = <<>>
    /\ deleted_messages = {}
    /\ nextmodseq = 1
    /\ nextModSeq = 1
    /\ sessionMsgs = {}
    /\ ocSent = <<>>

(***************************************************************************)
(* Helpers.                                                                *)
(***************************************************************************)
Range(s) == {s[i] : i \in 1..Len(s)}

Inc2(n) == IF n < 2 THEN n + 1 ELSE 2

RemoveFrom(s, x) == SelectSeq(s, LAMBDA y : y # x)

Contains(s, x) == x \in Range(s)

NoQuery ==
    [state |-> "None", name |-> "", txn |-> 0, copy |-> FALSE,
     kind |-> "plain", err |-> "", notified |-> 0, rows |-> FALSE,
     sentOn |-> 0, wire |-> <<>>]

NoTxn ==
    [state |-> "Inactive", db |-> 0, queue |-> <<>>, begun |-> FALSE,
     ended |-> FALSE, notified |-> 0]

\* PgData::PgData()
NewPgData ==
    [active |-> FALSE, startup |-> FALSE, authenticated |-> FALSE,
     identBreakageSeen |-> FALSE, sendingCopy |-> FALSE,
     description |-> FALSE, prepared |-> {}, queries |-> <<>>,
     transaction |-> 0]

NewBackend ==
    [phase |-> "pre", tx |-> "Idle", copyIn |-> FALSE, parsed |-> {}]

(***************************************************************************)
(* The part of the state that the handlers read and write, as one record,  *)
(* so that a handler that calls another handler is a composition.          *)
(***************************************************************************)
World ==
    [dbq |-> dbQueries, handles |-> handles, query |-> query, txn |-> txn,
     pg |-> pg, dbstate |-> dbstate, cstate |-> cstate, srv |-> srv,
     sentLog |-> sentLog, reconnects |-> reconnects,
     disasters |-> disasters, unk |-> FALSE]

Commit(w) ==
    /\ dbQueries' = w.dbq
    /\ handles' = w.handles
    /\ query' = w.query
    /\ txn' = w.txn
    /\ pg' = w.pg
    /\ dbstate' = w.dbstate
    /\ cstate' = w.cstate
    /\ srv' = [h \in Handles |->
                  \* the backend of a handle that has stopped is gone
                  IF w.cstate[h] = "Closing" \/ ~w.pg[h].active
                  THEN NewBackend ELSE w.srv[h]]
    /\ sentLog' = w.sentLog
    /\ reconnects' = w.reconnects
    /\ disasters' = w.disasters
    /\ UNCHANGED <<expungevars, extravars>>

(***************************************************************************)
(* Query and Transaction (query.cpp, transaction.cpp).                     *)
(***************************************************************************)
QueryDone(w, q) == w.query[q].state \in {"Completed", "Failed"}

\* Transaction::setError
TransactionSetError(w, t) ==
    IF w.txn[t].state = "Failed" THEN w
    ELSE [w EXCEPT !.txn[t].state = "Failed"]

\* Query::setError
QuerySetError(w, q, s) ==
    LET w1 == [w EXCEPT !.query[q].state = "Failed", !.query[q].err = s]
    IN  IF w.query[q].txn # 0
        THEN TransactionSetError(w1, w.query[q].txn)
        ELSE w1

\* Query::notify: the owner's execute() is called.
QueryNotify(w, q) ==
    IF QueryDone(w, q)
    THEN [w EXCEPT !.query[q].notified = Inc2(@)]
    ELSE w

\* Transaction::notify
TransactionNotify(w, t) == [w EXCEPT !.txn[t].notified = Inc2(@)]

(***************************************************************************)
(* Postgres::processQueue                                                   *)
(***************************************************************************)
\* The list processQueue takes Queries from.
QueueOf(w, h) ==
    IF w.pg[h].transaction # 0
    THEN w.txn[w.pg[h].transaction].queue
    ELSE w.dbq

NextInQueue_last(l) == l[Len(l)]

\* The element of the list that is sent next.
NextInQueue(l) == Head(l)

ParseNeeded_unnamedOnly(prepared, nm) == nm = ""

\* Is a Parse sent for a Query called nm?
ParseNeeded(prepared, nm) == nm = "" \/ nm \notin prepared

\* The messages written for one Query.
WireFor(parse) ==
    (IF parse THEN <<"Parse">> ELSE <<>>)
        \o <<"Bind", "Describe", "Execute", "Sync">>

BindsTransaction_never(w, h, q) == FALSE

\* Does the Query bind the handle to its Transaction?
BindsTransaction(w, h, q) ==
    w.pg[h].transaction = 0 /\ w.query[q].txn # 0

RECURSIVE ProcessLoop(_, _)
ProcessLoop(w, h) ==
    LET t0 == w.pg[h].transaction
        l == QueueOf(w, h)
    IN  IF l = <<>> THEN w
        ELSE
        LET q == NextInQueue(l) IN
        IF w.query[q].state # "Submitted" THEN w
        ELSE
        LET w1 == IF t0 # 0
                  THEN [w EXCEPT !.txn[t0].queue = RemoveFrom(@, q)]
                  ELSE [w EXCEPT !.dbq = RemoveFrom(@, q)]
            w2 == [w1 EXCEPT !.query[q].state = "Executing"]
            qt == w.query[q].txn
            w3 == IF BindsTransaction(w, h, q)
                  THEN [w2 EXCEPT !.pg[h].transaction = qt,
                                  !.txn[qt].state = "Executing",
                                  !.txn[qt].db = h]
                  ELSE w2
            nm == w.query[q].name
            parse == ParseNeeded(w.pg[h].prepared, nm)
            w4 == [w3 EXCEPT
                     !.pg[h].queries = Append(@, q),
                     !.pg[h].prepared =
                         IF parse /\ nm # "" THEN @ \cup {nm} ELSE @,
                     !.query[q].wire = WireFor(parse),
                     !.query[q].sentOn = h,
                     !.sentLog[h] = Append(@, q)]
        IN  IF w.query[q].copy
            THEN [w4 EXCEPT !.pg[h].sendingCopy = TRUE]
            ELSE ProcessLoop(w4, h)

processQueue(w, h) ==
    IF w.pg[h].sendingCopy THEN w ELSE ProcessLoop(w, h)

(***************************************************************************)
(* Database (database.cpp): the pool.                                      *)
(***************************************************************************)
\* Database::removeHandle
removeHandle(w, h) == [w EXCEPT !.handles = RemoveFrom(@, h)]

\* Database::numHandles
numHandles(w) == Len(w.handles)

\* Database::runQueue: every idle handle is asked to send what it can.
RECURSIVE RunQueueFrom(_, _)
RunQueueFrom(w, i) ==
    IF i > Len(w.handles) \/ w.dbq = <<>> THEN w
    ELSE LET h == w.handles[i] IN
         IF w.dbstate[h] = "Idle"
         THEN RunQueueFrom(processQueue(w, h), i + 1)
         ELSE RunQueueFrom(w, i + 1)

runQueue(w) == RunQueueFrom(w, 1)

(***************************************************************************)
(* Postgres::error and Postgres::shutdown                                   *)
(***************************************************************************)
RECURSIVE FailFrom(_, _, _, _)
FailFrom(w, l, i, s) ==
    IF i > Len(l) THEN w
    ELSE FailFrom(QueryNotify(QuerySetError(w, l[i], s), l[i]), l, i + 1, s)

ErrorTargets_skipFirst(w, h) ==
    IF w.pg[h].queries = <<>> THEN <<>> ELSE Tail(w.pg[h].queries)

\* The Queries that error() fails.
ErrorTargets(w, h) == w.pg[h].queries

error(w, h, s) ==
    LET w1 == [w EXCEPT !.pg[h].active = FALSE]
        w2 == FailFrom(w1, ErrorTargets(w, h), 1, s)
    IN  removeHandle([w2 EXCEPT !.cstate[h] = "Closing"], h)

shutdown(w, h) ==
    LET w1 == removeHandle(w, h)
    IN  [w1 EXCEPT !.pg[h].active = FALSE]

(***************************************************************************)
(* Postgres::authentication, backendStartup, process, unknown              *)
(* A message is [type, arg]: type is the tag byte ("ack" stands for each   *)
(* of 1, 2, n and t; "X" for a tag no handler knows; "bad" for a message   *)
(* whose parser throws), arg the part of the payload the client looks at.  *)
(***************************************************************************)
HeadQuery(w, h) ==
    IF w.pg[h].queries = <<>> THEN 0 ELSE Head(w.pg[h].queries)

ReplyTarget_newest(w, h) ==
    IF w.pg[h].queries = <<>> THEN 0
    ELSE w.pg[h].queries[Len(w.pg[h].queries)]

\* The Query a server reply is attributed to.
ReplyTarget(w, h) == HeadQuery(w, h)

authentication_anyRequest(w, h, m) ==
    IF m.type = "R"
    THEN [w EXCEPT !.pg[h].authenticated = TRUE]
    ELSE [w EXCEPT !.unk = TRUE]

authentication(w, h, m) ==
    IF m.type = "R"
    THEN IF m.arg = "Success"
         THEN [w EXCEPT !.pg[h].authenticated = TRUE]
         ELSE IF m.arg \in {"Password", "Crypt", "MD5"}
         THEN w
         ELSE error(w, h, "Unsupported PgAuthRequest.")
    ELSE [w EXCEPT !.unk = TRUE]

IdentRetry_everyTime(w, h, u) ==
    /\ u = "jail"
    /\ ~unixSocket
    /\ security

\* May the handle reconnect after an IDENT failure for user u?
IdentRetry(w, h, u) ==
    /\ u = "jail"
    /\ ~unixSocket
    /\ security
    /\ ~w.pg[h].identBreakageSeen

\* The state a ReadyForQuery puts the handle in.
ReadyState(m) == m.arg

processReady(w, h, m) ==
    LET t == w.pg[h].transaction
        w1 == IF w.dbstate[h] \in {"InTransaction", "FailedTransaction"}
                 /\ t # 0
              THEN IF m.arg = "FailedTransaction"
                   THEN [w EXCEPT !.txn[t].state = "Failed"]
                   ELSE IF m.arg = "Idle"
                   THEN LET wa == IF w.txn[t].state # "Failed"
                                  THEN [w EXCEPT !.txn[t].state = "Completed"]
                                  ELSE w
                            wb == TransactionNotify(wa, t)
                        IN  [wb EXCEPT !.pg[h].transaction = 0]
                   ELSE w
              ELSE w
        w2 == [w1 EXCEPT !.dbstate[h] = ReadyState(m)]
    IN  processQueue(w2, h)

process(w, h, m) ==
    LET q == ReplyTarget(w, h) IN
    CASE m.type = "ack" -> w
      [] m.type = "G" ->
            processQueue([w EXCEPT !.pg[h].sendingCopy = FALSE], h)
      [] m.type = "T" -> [w EXCEPT !.pg[h].description = TRUE]
      [] m.type = "D" ->
            IF q = 0 \/ ~w.pg[h].description
            THEN error(w, h, "Unexpected data row")
            ELSE QueryNotify([w EXCEPT !.query[q].rows = TRUE], q)
      [] m.type \in {"I", "C"} ->
            IF q # 0
            THEN LET w1 == IF ~QueryDone(w, q)
                           THEN [w EXCEPT !.query[q].state = "Completed"]
                           ELSE w
                     w2 == QueryNotify(w1, q)
                 IN  [w2 EXCEPT !.pg[h].queries = Tail(@)]
            ELSE w
      [] m.type = "Z" -> processReady(w, h, m)
      [] OTHER -> [w EXCEPT !.unk = TRUE]

backendStartup(w, h, m) ==
    CASE m.type = "Z" ->
            \* the message is left in the buffer, and process() sees it next
            process([w EXCEPT !.pg[h].startup = FALSE], h, m)
      [] m.type = "K" -> w
      [] OTHER -> [w EXCEPT !.unk = TRUE]

unknown(w, h, m) ==
    LET w0 == [w EXCEPT !.unk = FALSE]
        q == HeadQuery(w, h)
    IN
    CASE m.type = "S" -> w0
      [] m.type = "E" ->
            CASE m.arg \in {"FatalIdentJail", "FatalIdentOther"} ->
                    IF IdentRetry(w, h,
                           IF m.arg = "FatalIdentJail" THEN "jail" ELSE "other")
                    THEN [w0 EXCEPT !.pg[h].identBreakageSeen = TRUE,
                                    !.reconnects[h] = Inc2(@),
                                    !.cstate[h] = "Connecting",
                                    !.srv[h] = NewBackend]
                    ELSE [w0 EXCEPT !.disasters[h] = 1]
              [] m.arg = "Fatal" -> error(w0, h, "Fatal")
              [] m.arg \in {"Error", "Warning"} ->
                    IF q # 0 /\ m.arg = "Error"
                    THEN LET w1 == [w0 EXCEPT !.pg[h].queries = Tail(@)]
                         IN  QueryNotify(QuerySetError(w1, q, "ServerError"), q)
                    ELSE w0
              [] OTHER -> w0
      [] OTHER -> error(w0, h, "Unexpected message")

\* One round of the loop in react( Read ).
readMessage(w, h, m) ==
    IF m.type = "bad"
    THEN error(w, h, "Malformed")
    ELSE LET w1 == IF w.pg[h].startup
                   THEN IF ~w.pg[h].authenticated
                        THEN authentication(w, h, m)
                        ELSE backendStartup(w, h, m)
                   ELSE process(w, h, m)
         IN  IF w1.unk THEN unknown(w1, h, m) ELSE w1

(***************************************************************************)
(* The PostgreSQL backend of a handle.  Before it has said ReadyForQuery   *)
(* it may send anything.  Afterwards it answers the oldest Query the       *)
(* handle has sent and not seen finished: rows, then CommandComplete or an *)
(* error, then ReadyForQuery with its transaction status; BEGIN opens a    *)
(* transaction, COMMIT/ROLLBACK ends it, an error inside one makes it a    *)
(* failed one.  Notices, fatal errors and garbage may come at any time.    *)
(***************************************************************************)
Severities ==
    {"FatalIdentJail", "FatalIdentOther", "Fatal", "Error", "Warning",
     "Notice"}

FatalSeverities == {"FatalIdentJail", "FatalIdentOther", "Fatal"}

Msg(t, a) == [type |-> t, arg |-> a]

PreMsgs ==
    {Msg("R", a) : a \in {"Success", "MD5", "Credential"}}
    \cup {Msg("E", a) : a \in Severities}
    \cup {Msg("Z", "Idle"), Msg("K", ""), Msg("S", ""), Msg("X", ""),
          Msg("bad", "")}

AsyncMsgs ==
    {Msg("E", a) : a \in {"Fatal", "Warning"}}
    \cup {Msg("S", ""), Msg("X", ""), Msg("bad", "")}

ReplyMsgs(h) ==
    LET q == IF pg[h].queries = <<>> THEN 0 ELSE Head(pg[h].queries)
        b == srv[h]
    IN  IF q = 0 THEN {}
        ELSE IF b.phase = "sync" THEN {Msg("Z", b.tx)}
        ELSE {Msg("ack", ""), Msg("T", ""), Msg("D", "")}
             \cup (IF query[q].copy /\ ~b.copyIn
                   THEN {Msg("G", "")} ELSE {})
             \cup (IF /\ b.copyIn = query[q].copy
                      /\ (b.tx = "FailedTransaction" => query[q].kind = "end")
                   THEN {Msg("C", ""), Msg("I", "")} ELSE {})
             \cup (IF query[q].kind # "begin"
                   THEN {Msg("E", "Error")} ELSE {})

\* A backend in phase "sync" owes a ReadyForQuery for a finished Query.
SyncMsgs(h) ==
    IF srv[h].phase = "sync" THEN {Msg("Z", srv[h].tx)} ELSE {}

\* What sending m in answer to Query q does to the backend.
BackendReply(b, m, q) ==
    CASE m.type \in {"C", "I"} ->
            [b EXCEPT !.phase = "sync", !.copyIn = FALSE,
                      !.tx = CASE query[q].kind = "begin" /\ @ = "Idle"
                                    -> "InTransaction"
                               [] query[q].kind = "end" -> "Idle"
                               [] OTHER -> @]
      [] m.type = "E" /\ m.arg = "Error" ->
            [b EXCEPT !.phase = "sync", !.copyIn = FALSE,
                      !.tx = CASE query[q].kind = "end" -> "Idle"
                               [] @ = "InTransaction" -> "FailedTransaction"
                               [] OTHER -> @]
      [] m.type = "G" -> [b EXCEPT !.copyIn = TRUE]
      [] m.type = "Z" -> [b EXCEPT !.phase = "exec"]
      \* a backend that has reported a fatal error sends nothing more
      [] m.type = "E" /\ m.arg \in FatalSeverities ->
            [b EXCEPT !.phase = "closed"]
      [] OTHER -> b

\* The statements the backend has parsed once it has sent m in answer to
\* Query q: any reply but an error shows that the Parse sent with q, if
\* any, succeeded.
ParsedAfter(b, m, q) ==
    IF /\ m.type \in {"ack", "T", "D", "G", "C", "I"}
       /\ q # 0
    THEN IF query[q].name # "" /\ "Parse" \in Range(query[q].wire)
         THEN b.parsed \cup {query[q].name}
         ELSE b.parsed
    ELSE b.parsed

\* The backend after it has sent m in answer to Query q.
BackendAfter(b, m, q) ==
    [BackendReply(b, m, q) EXCEPT !.parsed = ParsedAfter(b, m, q)]

(***************************************************************************)
(* The events of a handle: Postgres::Postgres and Postgres::react.         *)
(***************************************************************************)
Open(h) == cstate[h] \in {"Connecting", "Connected"}

\* react( Connect )
ReactConnect(h) ==
    /\ h \in Connectable
    /\ cstate[h] = "Connecting"
    /\ Commit([World EXCEPT !.cstate[h] = "Connected",
                            !.pg[h].active = TRUE,
                            !.pg[h].startup = TRUE,
                            !.srv[h] = NewBackend])
    /\ UNCHANGED <<unixSocket, security, nq, handshake>>

\* What the arrival of m adds to the history of the handshake.
HandshakeAfter(hs, m) ==
    CASE hs = "none" /\ m = Msg("R", "Success") -> "auth"
      [] hs = "auth" /\ m.type = "Z" -> "ready"
      [] OTHER -> hs

\* react( Read ), the message m, before the backend is ready
RecvStartup(h, m) ==
    /\ cstate[h] = "Connected"
    /\ pg[h].active
    /\ srv[h].phase = "pre"
    /\ m \in PreMsgs
    /\ LET w0 == IF m.type = "Z" \/ m.arg \in FatalSeverities
                 THEN [World EXCEPT !.srv[h] = BackendAfter(@, m, 0)]
                 ELSE World
       IN  Commit(readMessage(w0, h, m))
    /\ handshake' = [handshake EXCEPT ![h] = HandshakeAfter(@, m)]
    /\ UNCHANGED <<unixSocket, security, nq>>

ReactReadStartup(h) == \E m \in PreMsgs : RecvStartup(h, m)

\* react( Read ), the message m, once the backend is ready
RecvReply(h, m) ==
    /\ cstate[h] = "Connected"
    /\ pg[h].active
    /\ srv[h].phase \in {"exec", "sync"}
    /\ m \in ReplyMsgs(h) \cup SyncMsgs(h) \cup AsyncMsgs
    /\ LET q == IF pg[h].queries = <<>> THEN 0 ELSE Head(pg[h].queries)
           w0 == [World EXCEPT !.srv[h] = BackendAfter(@, m, q)]
       IN  Commit(readMessage(w0, h, m))
    /\ handshake' = [handshake EXCEPT ![h] = HandshakeAfter(@, m)]
    /\ UNCHANGED <<unixSocket, security, nq>>

AllMsgs ==
    PreMsgs \cup AsyncMsgs
    \cup {Msg(t, "") : t \in {"ack", "T", "D", "G", "C", "I"}}
    \cup {Msg("E", "Error")}
    \cup {Msg("Z", x) : x \in {"Idle", "InTransaction", "FailedTransaction"}}

ReactRead(h) == \E m \in AllMsgs : RecvReply(h, m)

\* react( Error )
ReactError(h) ==
    /\ Open(h)
    /\ Commit(error(World, h, "Couldn't connect to PostgreSQL."))
    /\ UNCHANGED <<unixSocket, security, nq, handshake>>

\* react( Close )
ReactClose(h) ==
    /\ cstate[h] = "Connected"
    /\ Commit(error(World, h, "Connection terminated by the server."))
    /\ UNCHANGED <<unixSocket, security, nq, handshake>>

IdleShutdownAllowed_always(w) == TRUE

\* May the idle timer shut the handle down?
IdleShutdownAllowed(w) == numHandles(w) > 1 \/ ~unixSocket

timeout(w, h) ==
    IF ~w.pg[h].active \/ w.pg[h].startup
    THEN error(w, h, "Timeout negotiating connection to PostgreSQL.")
    ELSE IF Len(w.pg[h].queries) > 0
    THEN error(w, h, "Request timeout.")
    ELSE IF IdleShutdownAllowed(w)
    THEN shutdown(w, h)
    ELSE w

\* react( Timeout )
ReactTimeout(h) ==
    /\ Open(h)
    /\ Commit(timeout(World, h))
    /\ UNCHANGED <<unixSocket, security, nq, handshake>>

\* react( Shutdown ): the loop hands it to every connection it has.
RECURSIVE ShutdownFrom(_, _)
ShutdownFrom(w, hs) ==
    IF hs = {} THEN w
    ELSE LET h == CHOOSE x \in hs : \A y \in hs : x <= y
         IN  ShutdownFrom(IF w.cstate[h] \in {"Connecting", "Connected"}
                          THEN shutdown(w, h) ELSE w, hs \ {h})

ReactShutdown ==
    /\ \E h \in Handles : Open(h) /\ h \in Range(handles)
    /\ Commit(ShutdownFrom(World, Handles))
    /\ UNCHANGED <<unixSocket, security, nq, handshake>>

(***************************************************************************)
(* The owners of Queries and Transactions.  They submit while the pool has *)
(* a connection that is not closed.                                        *)
(***************************************************************************)
PoolOpen == \E h \in Connectable : Open(h)

NewQuery(nm, t, cp, k) ==
    [NoQuery EXCEPT !.state = "Submitted", !.name = nm, !.txn = t,
                    !.copy = cp, !.kind = k]

\* Database::submit( Query * )
Submit(sh) ==
    /\ PoolOpen
    /\ nq < MaxQuery
    /\ nq' = nq + 1
    /\ LET q == nq + 1
           w1 == [World EXCEPT !.query[q] = NewQuery(sh.name, 0, sh.copy, "plain"),
                               !.dbq = Append(@, q)]
       IN  Commit(runQueue(w1))
    /\ UNCHANGED <<unixSocket, security, handshake>>

\* Transaction::execute, the first time: BEGIN goes to Database::queries.
TransactionBegin(t) ==
    /\ PoolOpen
    /\ nq < MaxQuery
    /\ ~txn[t].begun
    /\ nq' = nq + 1
    /\ LET q == nq + 1
           w1 == [World EXCEPT !.query[q] = NewQuery("", t, FALSE, "begin"),
                               !.dbq = Append(@, q),
                               !.txn[t].begun = TRUE]
       IN  Commit(runQueue(w1))
    /\ UNCHANGED <<unixSocket, security, handshake>>

\* Transaction::enqueue and execute; k = "end" is commit() or rollback().
TransactionExecute(t, k) ==
    /\ PoolOpen
    /\ nq < MaxQuery
    /\ txn[t].begun
    /\ ~txn[t].ended
    /\ txn[t].state # "Completed"
    /\ k = "plain" => txn[t].state # "Failed"
    /\ nq' = nq + 1
    /\ LET q == nq + 1
           w1 == [World EXCEPT !.query[q] = NewQuery(IF k = "end" THEN "" ELSE "s",
                                                   t, FALSE, k),
                               !.txn[t].queue = Append(@, q),
                               !.txn[t].ended = (k = "end")]
       IN  Commit(IF txn[t].db # 0 THEN processQueue(w1, txn[t].db) ELSE w1)
    /\ UNCHANGED <<unixSocket, security, handshake>>

(***************************************************************************)
(* The specification of part 1.                                            *)
(***************************************************************************)
\* The pool before any event.
PoolInit ==
    /\ dbQueries = <<>>
    /\ handles = <<1, 2>>
    /\ nq = 0
    /\ query = [q \in Queries |-> NoQuery]
    /\ txn = [t \in Txns |-> NoTxn]
    /\ pg = [h \in Handles |-> NewPgData]
    /\ dbstate = [h \in Handles |-> "Connecting"]
    /\ cstate = [h \in Handles |-> "Connecting"]
    /\ srv = [h \in Handles |-> NewBackend]
    /\ sentLog = [h \in Handles |-> <<>>]
    /\ handshake = [h \in Handles |-> "none"]
    /\ reconnects = [h \in Handles |-> 0]
    /\ disasters = [h \in Handles |-> 0]

PgInit ==
    /\ \E c \in Configurations : unixSocket = c[1] /\ security = c[2]
    /\ PoolInit
    /\ NoExpunge
    /\ NoExtra

PgNext ==
    \/ \E h \in Handles : ReactConnect(h)
    \/ \E h \in Handles : ReactReadStartup(h)
    \/ \E h \in Handles : ReactRead(h)
    \/ \E h \in Handles : ReactError(h)
    \/ \E h \in Handles : ReactClose(h)
    \/ \E h \in Handles : ReactTimeout(h)
    \/ ReactShutdown
    \/ \E sh \in Shapes : Submit(sh)
    \/ \E t \in Txns : TransactionBegin(t)
    \/ \E t \in Txns, k \in {"plain", "end"} : TransactionExecute(t, k)

PgSpec == PgInit /\ [][PgNext]_vars

\* react( Read ) for a message the backend owes for the Query in flight.
ReactReadOwed(h) == \E m \in ReplyMsgs(h) \cup SyncMsgs(h) : RecvReply(h, m)

\* The backend answers every Query it has been sent and the event loop
\* delivers the answer; nothing else is promised (no Query need be
\* submitted, no connection need fail).
PgLiveSpec ==
    PgInit /\ [][PgNext]_vars
        /\ WF_vars(\E h \in Handles : ReactReadOwed(h))

(***************************************************************************)
(* Part 2: the EXPUNGE handler (imap/handlers/expunge.cpp).                *)
(*                                                                         *)
(* One command runs on one selected mailbox.  A SQL text is a sequence of  *)
(* pieces: literal text, or a placeholder $n.  A Query is its SQL text and *)
(* the indices given to bind(), in the order of the calls.  The condition  *)
(* MessageSet::where() adds to a text is literal text.                     *)
(***************************************************************************)
Uids == 1..MaxUid

Text(t) == <<"text", t>>

Param(n) == <<"$", n>>

\* The $n a SQL text mentions.
Placeholders(sql) ==
    {sql[i][2] : i \in {j \in 1..Len(sql) : sql[j][1] = "$"}}

\* The indices bind() has been called with.
BoundIndices(q) == Range(q.binds)

\* The values bind() has been called with, in the order of the calls:
\* ids are numbers, as modseqs are.
MailboxId == 1

FlagId == 1

UserId == 1

FindModseqQuery ==
    [sql |-> <<Text("select nextmodseq from mailboxes where id="), Param(1),
               Text(" for update")>>,
     binds |-> <<1>>,
     values |-> <<MailboxId>>]

FindUidsQuery(uid) ==
    [sql |-> <<Text("select uid from flags where mailbox="), Param(1),
               Text(" and flag="), Param(2)>>
             \o (IF uid THEN <<Text(" and ("), Text("where"), Text(")")>>
                 ELSE <<>>),
     binds |-> <<1, 2>>,
     values |-> <<MailboxId, FlagId>>]

SetModseqQuery(modseq) ==
    [sql |-> <<Text("update mailbox_messages set modseq="), Param(2),
               Text(" where mailbox="), Param(1),
               Text(" and ("), Text("where"), Text(")")>>,
     binds |-> <<1, 1>>,
     values |-> <<MailboxId, modseq>>]

InsertDeletedQuery ==
    [sql |-> <<Text("insert into deleted_messages (mailbox, uid, message, deleted_by, reason) select mailbox, uid, message, "),
               Param(2), Text(", "), Param(3),
               Text(" from mailbox_messages where mailbox="), Param(1),
               Text(" and ("), Text("where"), Text(")")>>,
     binds |-> <<1, 2, 3>>,
     values |-> <<MailboxId, UserId, 0>>]

SetNextModseqQuery_same(modseq) ==
    [sql |-> <<Text("update mailboxes set nextmodseq="), Param(1),
               Text(" where id="), Param(2)>>,
     binds |-> <<1, 2>>,
     values |-> <<modseq, MailboxId>>]

SetNextModseqQuery(modseq) ==
    [sql |-> <<Text("update mailboxes set nextmodseq="), Param(1),
               Text(" where id="), Param(2)>>,
     binds |-> <<1, 2>>,
     values |-> <<modseq + 1, MailboxId>>]

(***************************************************************************)
(* The database, when the Transaction commits.  Query::bind and the Bind   *)
(* message are not part of this source: a Transaction whose Queries bind   *)
(* as many values as their texts have placeholders can commit, and then    *)
(* $k has the value of the k-th call of bind(); it can always fail.        *)
(***************************************************************************)
Arg(q, k) == q.values[k]

CanCommit(qs) ==
    \A i \in 1..Len(qs) :
        Len(qs[i].values) = Cardinality(Placeholders(qs[i].sql))

\* update mailbox_messages set modseq=$2 where mailbox=$1 and (uids)
SetModseqRows(q, rows, uids) ==
    [u \in DOMAIN rows |->
        IF Arg(q, 1) = MailboxId /\ u \in uids THEN Arg(q, 2) ELSE rows[u]]

\* insert into deleted_messages ... select ... from mailbox_messages
\* where mailbox=$1 and (uids)
InsertDeletedRows(q, deleted, rows, uids) ==
    IF Arg(q, 1) = MailboxId
    THEN deleted \cup (uids \cap DOMAIN rows)
    ELSE deleted

\* update mailboxes set nextmodseq=$1 where id=$2
SetNextModseqRow(q, n) ==
    IF Arg(q, 2) = MailboxId THEN Arg(q, 1) ELSE n

\* if ( nextModSeq() <= d->modseq ) setNextModSeq( d->modseq + 1 )
NextModSeqAfter_less(mem, modseq) ==
    IF mem < modseq THEN modseq + 1 ELSE mem

NextModSeqAfter(mem, modseq) ==
    IF mem <= modseq THEN modseq + 1 ELSE mem

\* The first call of execute(): the Transaction and its two selects.
ExecuteFirst ==
    /\ cmd.state = "Executing"
    /\ d.t = "None"
    /\ enqueued' = <<FindModseqQuery, FindUidsQuery(uidCommand)>>
    /\ rowsLeft' = {u \in flagged : ~uidCommand \/ u \in d.uids}
    /\ d' = [d EXCEPT !.s = TRUE, !.t = "Executing",
                      !.findUids = "Executing", !.uids = {}]
    /\ UNCHANGED <<uidCommand, cmd, flagged, mailbox_messages,
                   deleted_messages, nextmodseq, nextModSeq, sessionMsgs,
                   ocSent>>
    /\ UNCHANGED <<pgvars, extravars>>

\* execute() is called with a row of findUids, which is not done.
ExecuteRow(u) ==
    /\ cmd.state = "Executing"
    /\ d.findUids = "Executing"
    /\ u \in rowsLeft
    /\ rowsLeft' = rowsLeft \ {u}
    /\ d' = [d EXCEPT !.uids = @ \cup {u}]
    /\ UNCHANGED <<uidCommand, cmd, enqueued, flagged, mailbox_messages,
                   deleted_messages, nextmodseq, nextModSeq, sessionMsgs,
                   ocSent>>
    /\ UNCHANGED <<pgvars, extravars>>

\* execute() is called when findUids is done: nothing to expunge, or the
\* three Queries of the expunge and the commit.
ExecuteFound ==
    /\ cmd.state = "Executing"
    /\ d.findUids = "Executing"
    /\ rowsLeft = {}
    /\ IF d.uids = {}
       THEN /\ d' = [d EXCEPT !.findUids = "Completed", !.t = "RolledBack"]
            /\ cmd' = [state |-> "Finished", response |-> "OK"]
            /\ UNCHANGED enqueued
       ELSE /\ d' = [d EXCEPT !.findUids = "Completed", !.t = "Committing",
                              !.modseq = nextmodseq, !.expunge = TRUE]
            /\ enqueued' = enqueued \o <<SetModseqQuery(nextmodseq),
                                          InsertDeletedQuery,
                                          SetNextModseqQuery(nextmodseq)>>
            /\ UNCHANGED cmd
    /\ UNCHANGED <<uidCommand, rowsLeft, flagged, mailbox_messages,
                   deleted_messages, nextmodseq, nextModSeq, sessionMsgs,
                   ocSent>>
    /\ UNCHANGED <<pgvars, extravars>>

\* The Transaction is done with outcome o, and execute() is called.
ExecuteDone(o) ==
    /\ cmd.state = "Executing"
    /\ d.t = "Committing"
    /\ o = "Completed" => CanCommit(enqueued)
    /\ d' = [d EXCEPT !.t = o]
    /\ IF o = "Completed"
       THEN LET rows == SetModseqRows(enqueued[3], mailbox_messages, d.uids)
            IN  /\ mailbox_messages' = rows
                /\ deleted_messages' =
                      InsertDeletedRows(enqueued[4], deleted_messages, rows,
                                        d.uids)
                /\ nextmodseq' = SetNextModseqRow(enqueued[5], nextmodseq)
       ELSE UNCHANGED <<mailbox_messages, deleted_messages, nextmodseq>>
    /\ cmd' = [state |-> "Finished",
               response |-> IF o = "Failed" THEN "NO" ELSE "OK"]
    /\ sessionMsgs' = sessionMsgs \ d.uids
    /\ nextModSeq' = NextModSeqAfter(nextModSeq, d.modseq)
    /\ ocSent' = IF nextModSeq' # nextModSeq
                 THEN Append(ocSent, d.modseq + 1) ELSE ocSent
    /\ UNCHANGED <<uidCommand, enqueued, rowsLeft, flagged>>
    /\ UNCHANGED <<pgvars, extravars>>

\* A parsed EXPUNGE or UID EXPUNGE on a selected mailbox.
ExpungeInit ==
    /\ unixSocket = TRUE
    /\ security = TRUE
    /\ PoolInit
    /\ uidCommand \in BOOLEAN
    /\ \E set \in SUBSET Uids :
          /\ uidCommand <=> set # {}
          /\ d = [NewExpungeData EXCEPT !.uids = set]
    /\ cmd = [state |-> "Executing", response |-> ""]
    /\ enqueued = <<>>
    /\ rowsLeft = {}
    /\ flagged \in SUBSET Uids
    /\ nextmodseq \in 1..MaxModSeq
    /\ nextModSeq \in 1..nextmodseq
    /\ mailbox_messages = [u \in Uids |-> nextmodseq - 1]
    /\ deleted_messages = {}
    /\ sessionMsgs = Uids
    /\ ocSent = <<>>
    /\ NoExtra

ExpungeNext ==
    \/ ExecuteFirst
    \/ \E u \in Uids : ExecuteRow(u)
    \/ ExecuteFound
    \/ \E o \in {"Completed", "Failed"} : ExecuteDone(o)

ExpungeSpec == ExpungeInit /\ [][ExpungeNext]_vars

\* The pool and the EXPUNGE command as they are when nothing uses them.
NoPg ==
    /\ unixSocket = TRUE
    /\ security = TRUE
    /\ PoolInit

(***************************************************************************)
(* Part 3: COMPRESS (imap/handlers/compress.cpp).                          *)
(*                                                                         *)
(* An IMAP connection runs up to MaxCommand commands, one after another.   *)
(* What is written is recorded with the number of deflate filters on the   *)
(* write buffer and of inflate filters on the read buffer at that moment.  *)
(***************************************************************************)
CompressArgs == {"deflate", "DEFLATE", "gzip"}

\* EString::lower
lower(a) == IF a = "DEFLATE" THEN "deflate" ELSE a

\* The tagged response of a command goes to the write buffer.
emitResponses(c, name, resp) ==
    [c EXCEPT !.out = Append(@, [cmd |-> name, resp |-> resp,
                                 deflated |-> c.writeFilters,
                                 inflating |-> c.readFilters])]

\* r->addFilter( new InflateFilter ); w->addFilter( new DeflateFilter )
addFilters(c) ==
    [c EXCEPT !.readFilters = @ + 1, !.writeFilters = @ + 1]

\* Compress::execute, and the tagged response of the finished command
execute(c, a) ==
    IF lower(a) # "deflate"
    THEN emitResponses(c, "compress", "BAD")
    ELSE addFilters(emitResponses(c, "compress", "OK"))

CompressExecute(a) ==
    /\ compress.commands < MaxCommand
    /\ compress' = [execute(compress, a) EXCEPT !.commands = @ + 1]
    /\ UNCHANGED <<pgvars, expungevars, auth, ren, sv, ss, msc, sel, abnf, sa, bf>>

\* Any other command finishes and its tagged response is written.
OtherCommand ==
    /\ compress.commands < MaxCommand
    /\ compress' = [emitResponses(compress, "other", "OK")
                      EXCEPT !.commands = @ + 1]
    /\ UNCHANGED <<pgvars, expungevars, auth, ren, sv, ss, msc, sel, abnf, sa, bf>>

CompressInit ==
    /\ NoPg
    /\ NoExpunge
    /\ NoByteForwarder
    /\ NoSetActive
    /\ NoAbnfParser
    /\ NoSelector
    /\ NoManageSieveCommand
    /\ NoScript
    /\ compress = NewImap
    /\ NoAuthenticate
    /\ NoRename
    /\ NoSieve

CompressNext ==
    \/ \E a \in CompressArgs : CompressExecute(a)
    \/ OtherCommand

CompressSpec == CompressInit /\ [][CompressNext]_vars

(***************************************************************************)
(* Part 4: AUTHENTICATE and its SASL mechanism                             *)
(* (imap/handlers/authenticate.cpp, sasl/anonymous.cpp).                   *)
(*                                                                         *)
(* One AUTHENTICATE command with mechanism name t, with or without an      *)
(* initial response.  The client sends up to MaxLine lines; the mechanism  *)
(* asks the database and is told the outcome later.                        *)
(***************************************************************************)
Mechanisms == {"anonymous", "bogus"}

Lines == {"data", "*"}

\* SaslMechanism::setState
setState(a, st) ==
    [a EXCEPT !.m = st, !.edges = @ \cup {<<a.m, st>>}]

\* SaslMechanism::done
done(a) == a.m \in {"Succeeded", "Failed", "Terminated"}

\* SaslMechanism::create, for the mechanisms of this source: Anonymous
\* starts in AwaitingInitialResponse, an unknown name gives no mechanism.
create(a) ==
    IF a.t \in {"anonymous", "plain"}
    THEN [a EXCEPT !.m = "AwaitingInitialResponse"]
    ELSE a

readResponse_succeed(a) == setState(a, "Succeeded")

\* Anonymous::readResponse: setLogin( "anonymous" ).  Any other mechanism
\* takes the login from the client's response.
readResponse(a) ==
    [setState(a, "Authenticating")
       EXCEPT !.login = IF a.t = "anonymous" THEN "anonymous" ELSE "u"]

\* imap()->reserve( 0 )
release_never(a) == a

release(a) == [a EXCEPT !.reserved = FALSE]

\* Command::error and Command::finish: the tagged response.
finish(a, resp) == [a EXCEPT !.state = "Finished", !.response = resp]

\* The loop of Authenticate::execute that feeds the mechanism.  Its result
\* has returned = TRUE if execute() returns from inside the loop.
RECURSIVE Feed(_)
Feed(a) ==
    IF ~(~done(a) /\ a.m \in {"IssuingChallenge", "AwaitingResponse"})
    THEN [a |-> a, returned |-> FALSE]
    ELSE IF a.m = "IssuingChallenge"
    THEN [a |-> [setState(a, "AwaitingResponse")
                   EXCEPT !.r = "None", !.challenges = @ + 1],
          returned |-> TRUE]
    ELSE IF a.r = "None"
    THEN [a |-> a, returned |-> TRUE]
    ELSE IF a.r = "*"
    THEN Feed(setState(a, "Terminated"))
    ELSE Feed([readResponse(a) EXCEPT !.r = "None"])

\* Authenticate::execute, after the mechanism exists
Decide(a) ==
    LET f == Feed(a)
        b == f.a
    IN  IF f.returned \/ b.m = "Authenticating" \/ ~done(b)
        THEN b
        ELSE finish(release(IF b.m = "Succeeded"
                            THEN [b EXCEPT !.authenticated = TRUE]
                            ELSE b),
                    CASE b.m = "Succeeded" -> "OK"
                      [] b.m = "Terminated" -> "BAD"
                      [] OTHER -> "NO")

\* Authenticate::execute
AuthenticateExecute(a) ==
    IF a.state # "Executing" THEN a
    ELSE IF a.m # "None" THEN Decide(a)
    ELSE IF ~a.accessPermitted THEN finish(a, "NO")
    ELSE LET b == create(a)
         IN  IF b.m = "None" THEN finish(b, "NO")
             ELSE LET c == [b EXCEPT !.reserved = TRUE]
                      e == IF c.m = "AwaitingInitialResponse"
                           THEN [(IF c.r # "None"
                                  THEN readResponse(c)
                                  ELSE setState(c, "IssuingChallenge"))
                                    EXCEPT !.r = "None"]
                           ELSE c
                  IN  Decide(e)

\* The command has been parsed and is executed for the first time.
AuthStart ==
    /\ auth.state = "Executing"
    /\ auth.m = "None"
    /\ auth' = AuthenticateExecute(auth)
    /\ UNCHANGED <<pgvars, expungevars, compress, ren, sv, ss, msc, sel, abnf, sa, bf>>

\* The client sends a line.  If the input is reserved the command reads it
\* (Authenticate::read) and is executed; otherwise it is parsed as a
\* command of its own.
AuthLine(l) ==
    /\ auth.lines < MaxLine
    /\ auth.m # "None" \/ auth.state = "Finished"
    /\ IF auth.reserved
       THEN auth' = AuthenticateExecute([auth EXCEPT !.r = l,
                                                     !.lines = @ + 1])
       ELSE auth' = [auth EXCEPT !.parsed = @ + 1, !.lines = @ + 1]
    /\ UNCHANGED <<pgvars, expungevars, compress, ren, sv, ss, msc, sel, abnf, sa, bf>>

\* The mechanism has its answer from the database (Anonymous::verify, or a
\* user that does not exist), and the command is executed.
AuthVerified(o) ==
    /\ auth.m = "Authenticating"
    /\ auth' = AuthenticateExecute(setState(auth, o))
    /\ UNCHANGED <<pgvars, expungevars, compress, ren, sv, ss, msc, sel, abnf, sa, bf>>

AuthInit ==
    /\ NoPg
    /\ NoExpunge
    /\ NoByteForwarder
    /\ NoSetActive
    /\ NoAbnfParser
    /\ NoSelector
    /\ NoManageSieveCommand
    /\ NoScript
    /\ NoCompress
    /\ NoRename
    /\ NoSieve
    /\ \E t \in Mechanisms, ir \in {"None", "data"}, ap \in BOOLEAN :
          auth = [NewAuthenticate EXCEPT !.t = t, !.r = ir,
                                         !.accessPermitted = ap]

AuthNext ==
    \/ AuthStart
    \/ \E l \in Lines : AuthLine(l)
    \/ \E o \in {"Succeeded", "Failed"} : AuthVerified(o)

AuthSpec == AuthInit /\ [][AuthNext]_vars

(***************************************************************************)
(* Part 5: RENAME (imap/handlers/rename.cpp).                              *)
(*                                                                         *)
(* One RENAME command on a user whose inbox is "a".  ren.mailboxes is the  *)
(* tree of Mailbox objects, ren.rows the mailboxes table.  The first call  *)
(* of execute() builds and commits the Transaction, a later one sees it    *)
(* done.                                                                   *)
(***************************************************************************)
Inbox == <<"a">>

UidNexts == {1, 2}

\* Mailbox::children: the mailboxes one level below n.
children(n) ==
    {c \in Names2 : Len(c) = Len(n) + 1 /\ SubSeq(c, 1, Len(n)) = n}

\* to && !to->synthetic()
HasRow(to) == to.id # 0

toUidvalidity_always(from, to) == from.uidvalidity + 1

\* RenameData::process: the UIDVALIDITY the renamed mailbox gets.
toUidvalidity(from, to) ==
    IF HasRow(to) /\ (to.uidvalidity > from.uidvalidity \/ to.uidnext > 1)
    THEN to.uidvalidity + 1
    ELSE from.uidvalidity

\* RenameData::process.  st carries d->renames, the Queries enqueued and
\* ok(); ms is the Mailbox tree.
RenameProcess(ms, st, p) ==
    LET from == ms[p.from]
        to == ms[p.toName]
        uv == toUidvalidity(from, to)
        aside == IF HasRow(to)
                 THEN <<[text |-> "aside", id |-> to.id]>>
                 ELSE <<>>
        move == <<[text |-> "move", name |-> p.toName, uidvalidity |-> uv,
                   id |-> from.id]>>
        placeholder ==
            <<[text |-> IF HasRow(to) THEN "placeholder" ELSE "insert",
               name |-> p.from, uidnext |-> from.uidnext,
               uidvalidity |-> from.uidvalidity, id |-> to.id]>>
    IN  IF HasRow(to) /\ ~to.deleted
        THEN [st EXCEPT !.renames = Append(@, p), !.ok = FALSE]
        ELSE [st EXCEPT
                !.renames = Append(@, [p EXCEPT !.toUidvalidity = uv]),
                !.queries = @ \o aside \o move \o placeholder]

\* The children of the i-th and later renames, in the order of the loop of
\* Rename::execute (a mailbox of Names2 has at most one child).  A child
\* whose new name is outside Names2 is only recorded: RenameExecute leaves
\* such a RENAME out.
RECURSIVE processChildren(_, _, _)
processChildren(ms, st, i) ==
    IF i > Len(st.renames) \/ ~st.ok THEN st
    ELSE LET it == st.renames[i]
             todo == {c \in children(it.from) :
                        HasRow(ms[c]) /\ ~ms[c].deleted}
             c == CHOOSE c \in todo : TRUE
             p == [from |-> c,
                   toName |-> it.toName \o SubSeq(c, Len(it.from) + 1, Len(c)),
                   toUidvalidity |-> 0]
         IN  IF todo = {} THEN processChildren(ms, st, i + 1)
             ELSE IF p.toName \notin Names2
             THEN [st EXCEPT !.renames = Append(@, p)]
             ELSE processChildren(ms, RenameProcess(ms, st, p), i + 1)

\* The Transaction's Queries, applied in order to the mailboxes table.
RECURSIVE ApplyQueries(_, _)
ApplyQueries(rows, qs) ==
    IF qs = <<>> THEN rows
    ELSE LET q == Head(qs)
             next ==
               CASE q.text = "aside" ->
                      {IF r.id = q.id THEN [r EXCEPT !.name = <<"entropy">>]
                       ELSE r : r \in rows}
                 [] q.text = "move" ->
                      {IF r.id = q.id
                       THEN [r EXCEPT !.name = q.name,
                                      !.uidvalidity = q.uidvalidity]
                       ELSE r : r \in rows}
                 [] q.text = "placeholder" ->
                      {IF r.id = q.id
                       THEN [r EXCEPT !.name = q.name, !.uidnext = q.uidnext,
                                      !.uidvalidity = q.uidvalidity,
                                      !.deleted = TRUE]
                       ELSE r : r \in rows}
                 [] q.text = "insert" ->
                      rows \cup {[id |-> Cardinality(Names2)
                                           + Cardinality(rows) + 1,
                                  name |-> q.name, uidnext |-> q.uidnext,
                                  uidvalidity |-> q.uidvalidity,
                                  deleted |-> TRUE]}
                 [] OTHER ->
                      {IF r.name = q.name THEN [r EXCEPT !.deleted = FALSE]
                       ELSE r : r \in rows}
         IN  ApplyQueries(next, Tail(qs))

\* Mailbox::refresh: the Mailbox object takes what the table has under its
\* name.
refresh(rows, n, m) ==
    IF \E r \in rows : r.name = n
    THEN LET r == CHOOSE r \in rows : r.name = n
         IN  [id |-> r.id, uidnext |-> r.uidnext,
              uidvalidity |-> r.uidvalidity, deleted |-> r.deleted]
    ELSE m

\* The loop of Rename::execute that updates the Mailbox tree once the
\* Transaction is done.
RECURSIVE updateTree(_, _)
updateTree(ms, renames) ==
    IF renames = <<>> THEN ms
    ELSE LET it == Head(renames)
             from == ms[it.from]
             to == [id |-> from.id, uidnext |-> from.uidnext,
                    uidvalidity |-> it.toUidvalidity, deleted |-> FALSE]
             gone == [from EXCEPT !.id = 0,
                                  !.deleted = (it.from # Inbox)]
         IN  updateTree([ms EXCEPT ![it.toName] = to, ![it.from] = gone],
                        Tail(renames))

\* Rename::execute, first call: the renames are collected, the Queries
\* enqueued, and the Transaction is committed or rolled back.  refusal is
\* what the permission check and the sessions say.
RenameExecute(f, toName, refusal) ==
    /\ ren.state = "Unparsed"
    /\ f # toName
    /\ HasRow(ren.mailboxes[f])
    /\ ~ren.mailboxes[f].deleted
    /\ LET ms == ren.mailboxes
           p == [from |-> f, toName |-> toName, toUidvalidity |-> 0]
           first == RenameProcess(ms, [renames |-> <<>>, queries |-> <<>>,
                                 ok |-> TRUE], p)
           all == processChildren(ms, first, 1)
           inbox == IF all.ok /\ f = Inbox
                    THEN <<[text |-> "undelete", name |-> f]>>
                    ELSE <<>>
           ok == all.ok /\ refusal = "none"
       IN  /\ \A i \in 1..Len(all.renames) :
                 all.renames[i].toName \in Names2
           /\ ren' = [ren EXCEPT
                        !.d = [from |-> f, toName |-> toName,
                               renames |-> all.renames,
                               queries |-> all.queries \o inbox,
                               ready |-> ok],
                        !.ok = ok,
                        !.state = IF ok THEN "Executing" ELSE "Finished",
                        !.response = IF ok THEN "" ELSE "NO",
                        !.before = ren.rows]
    /\ UNCHANGED <<pgvars, expungevars, compress, auth, sv, ss, msc, sel, abnf, sa, bf>>

\* Rename::execute, called when the Transaction is done.
RenameDone(o) ==
    /\ ren.state = "Executing"
    /\ ren.d.ready
    /\ IF o = "Failed"
       THEN ren' = [ren EXCEPT !.ok = FALSE, !.state = "Finished",
                               !.response = "NO"]
       ELSE LET rows == ApplyQueries(ren.rows, ren.d.queries)
                ms == updateTree(ren.mailboxes, ren.d.renames)
                froms == {ren.d.renames[i].from :
                             i \in 1..Len(ren.d.renames)}
            IN  ren' = [ren EXCEPT
                         !.rows = rows,
                         !.mailboxes =
                            [n \in Names2 |->
                               IF n \in froms THEN refresh(rows, n, ms[n])
                               ELSE ms[n]],
                         !.state = "Finished",
                         !.response = "OK"]
    /\ UNCHANGED <<pgvars, expungevars, compress, auth, sv, ss, msc, sel, abnf, sa, bf>>

\* The mailboxes a user can have before the command: each top-level name
\* is free, a mailbox or a deleted mailbox; "a/c" is free or a mailbox,
\* "b/c" is free, a mailbox or a deleted one.
MailboxStates(n) ==
    {NoMailbox} \cup
    [id : {IF n = <<"a">> THEN 1 ELSE IF n = <<"b">> THEN 2
           ELSE IF n = <<"a", "c">> THEN 3 ELSE 4},
     uidnext : IF Len(n) = 1 THEN UidNexts
               ELSE IF n = <<"a", "c">> THEN {1} ELSE {2},
     uidvalidity : 1..MaxUidvalidity,
     deleted : IF n = <<"a", "c">> THEN {FALSE} ELSE BOOLEAN]

RenameInit ==
    /\ NoPg
    /\ NoExpunge
    /\ NoByteForwarder
    /\ NoSetActive
    /\ NoAbnfParser
    /\ NoSelector
    /\ NoManageSieveCommand
    /\ NoScript
    /\ NoCompress
    /\ NoAuthenticate
    /\ NoSieve
    /\ \E ms \in [Names2 -> UNION {MailboxStates(n) : n \in Names2}] :
          /\ \A n \in Names2 : ms[n] \in MailboxStates(n)
          /\ ren = [NewRename EXCEPT
                      !.mailboxes = ms,
                      !.rows = {[id |-> ms[n].id, name |-> n,
                                 uidnext |-> ms[n].uidnext,
                                 uidvalidity |-> ms[n].uidvalidity,
                                 deleted |-> ms[n].deleted] :
                                   n \in {x \in Names2 : HasRow(ms[x])}}]

RenameNext ==
    \/ \E f \in Names2, toName \in Names2,
          refusal \in {"none", "inuse", "denied"} :
          RenameExecute(f, toName, refusal)
    \/ \E o \in {"Completed", "Failed"} : RenameDone(o)

RenameSpec == RenameInit /\ [][RenameNext]_vars

(***************************************************************************)
(* Part 6: the ManageSieve servers (sieve/managesieve.cpp with             *)
(* sieve/managesievecommand.cpp, and sieved/sieve.cpp).                    *)
(*                                                                         *)
(* The client sends up to MaxInput pieces of input: command lines, a line  *)
(* that announces a literal of one piece, a line that announces a literal  *)
(* whose size is no legal number, an overlong line, and the beginning of a *)
(* line, shorter than the limit, that the next piece completes.  A Read    *)
(* event                                                                   *)
(* parses what has arrived; commands that need the TLS engine or the       *)
(* database finish when that answers.                                      *)
(***************************************************************************)
Input ==
    {"logout", "listscripts", "starttls", "bogus", "putscript {1+}",
     "putscript {bad+}", "overlong", "partial"}

\* The first word of a line.
Word(l) ==
    IF l \in {"putscript {1+}", "putscript {bad+}"} THEN "putscript"
    ELSE IF l = "authenticate data" THEN "authenticate"
    ELSE l

CommandOf_anyState(s, w) ==
    CASE w = "logout" -> "Logout"
      [] w = "starttls" -> "StartTls"
      [] w = "authenticate" -> "Authenticate"
      [] w = "listscripts" -> "ListScripts"
      [] w = "putscript" -> "PutScript"
      [] OTHER -> "Unknown"

\* ManageSieve::addCommand: the command a first word stands for.
CommandOf(s, w) ==
    IF w = "logout" THEN "Logout"
    ELSE IF s.state = "Unauthorised" /\ w = "starttls" THEN "StartTls"
    ELSE IF s.state = "Unauthorised" /\ w = "authenticate"
    THEN "Authenticate"
    ELSE IF s.state = "Authorised" /\ w = "listscripts" THEN "ListScripts"
    ELSE IF s.state = "Authorised" /\ w = "putscript" THEN "PutScript"
    ELSE "Unknown"

\* enqueue of a response; id is the command or line it answers.
Enqueue(s, r, id) == [s EXCEPT !.out = Append(@, [r |-> r, id |-> id])]

\* A protocol violation is answered: BYE and Connection::setState( Closing ).
Bye(s, isViolation) ==
    [Enqueue(s, "BYE", 0) EXCEPT
       !.conn = "Closing",
       !.violation = IF isViolation /\ @ = -1 THEN s.created ELSE @]

\* new ManageSieveCommand( this, c ), or newCommand of sieved.
\* l is the line the command was made from; m and r are the SASL mechanism
\* and the response line of an AUTHENTICATE.
NewCommand(s, c, l) ==
    [s EXCEPT !.received = @ + 1, !.created = @ + 1,
              !.commands = Append(@, [id |-> s.received + 1, cmd |-> c,
                                      step |-> 0, ready |-> "",
                                      done |-> FALSE, line |-> l,
                                      m |-> "None", r |-> "None"]),
              !.parsed = @ \cup {[id |-> s.received + 1, word |-> Word(l),
                                   cmd |-> c, state |-> s.state]},
              !.arg = <<>>]

CheckConnected_never(s) == FALSE

\* ManageSieve::runCommands notifies a command only if the connection is
\* Connected; Sieve::runCommands does not look.
CheckConnected(s) == s.server = "ManageSieve"

RECURSIVE runCommands(_)
RECURSIVE SieveExecute(_)

\* ManageSieveCommand::execute, called for the first command of the list.
SieveExecute(s) ==
    LET c == s.commands[1]
        x == [s EXCEPT !.ran = @ \cup {[id |-> c.id, cmd |-> c.cmd,
                                         state |-> s.state,
                                         user |-> s.user]}]
        t == IF c.step = 0
             THEN [x EXCEPT !.executed = Append(@, c.id),
                            !.commands[1].step = 1]
             ELSE x
        Finish(u, r) ==
            runCommands([Enqueue(u, r, c.id) EXCEPT !.commands[1].done = TRUE])
    IN  IF c.done THEN s
        ELSE CASE c.cmd = "Logout" ->
                    Finish([t EXCEPT !.conn = "Closing", !.logout = c.id],
                           "OK")
               [] c.cmd = "Unknown" -> Finish(t, "NO")
               [] c.cmd = "StartTls" ->
                    IF s.hasTls THEN Finish(t, "NO")
                    ELSE IF c.step = 0 THEN [t EXCEPT !.reserved = TRUE]
                    ELSE IF c.ready = "" THEN t
                    ELSE IF c.ready = "failed"
                    THEN Finish([t EXCEPT !.reserved = FALSE], "NO")
                    ELSE Finish([Enqueue(t, "OK", c.id) EXCEPT
                                   !.reserved = FALSE, !.hasTls = TRUE],
                                "OK")
               [] c.cmd = "Authenticate" ->
                    LET a == IF c.step # 0 THEN t
                             ELSE IF c.line = "authenticate data"
                             THEN [t EXCEPT !.reader = c.id,
                                            !.commands[1].m = "Authenticating"]
                             ELSE [t EXCEPT !.reader = c.id,
                                            !.commands[1].m = "AwaitingResponse"]
                        b == IF a.commands[1].m = "AwaitingResponse"
                                /\ a.commands[1].r # "None"
                             THEN [a EXCEPT !.commands[1].m = "Authenticating"]
                             ELSE a
                        e == IF b.commands[1].m = "Authenticating"
                                /\ c.ready # ""
                             THEN [b EXCEPT !.commands[1].m =
                                     IF c.ready = "ok" THEN "Succeeded"
                                     ELSE "Failed"]
                             ELSE b
                    IN  IF e.commands[1].m = "Succeeded"
                        THEN Finish([e EXCEPT !.user = "u",
                                              !.state = "Authorised",
                                              !.reader = 0], "OK")
                        ELSE IF e.commands[1].m = "Failed"
                        THEN Finish([e EXCEPT !.reader = 0], "NO")
                        ELSE e
               [] OTHER ->
                    IF c.step = 0 \/ c.ready = "" THEN t
                    ELSE Finish(t, IF c.ready = "failed" THEN "NO" ELSE "OK")

\* ManageSieve::runCommands and Sieve::runCommands
runCommands(s) ==
    LET t == IF s.commands # <<>> /\ s.commands[1].done
             THEN [s EXCEPT !.commands = Tail(@)]
             ELSE s
    IN  IF t.commands = <<>> THEN t
        ELSE IF t.commands[1].done THEN runCommands(t)
        ELSE IF CheckConnected(t) /\ t.conn # "Connected" THEN t
        ELSE SieveExecute(t)

\* removeLine gives no line: the buffer is empty, or has no line end yet,
\* or starts with more bytes than the limit without a line end.
NoLine(s) == s.buf = <<>> \/ Head(s.buf) \in {"overlong", "partial"}

\* "Connection closed due to overlong line": BYE and Closing.
LineTooLong(s) ==
    [Bye(s, s.buf # <<>>) EXCEPT
       !.tooLong = IF s.buf = <<>> THEN "empty" ELSE Head(s.buf)]

\* Bytes arrive: they complete the unfinished line at the end of the
\* buffer, if there is one.
Arrive(buf, l) ==
    IF buf # <<>> /\ buf[Len(buf)] = "partial"
    THEN [buf EXCEPT ![Len(buf)] = l]
    ELSE Append(buf, l)

\* ManageSieve::parse
RECURSIVE ManageSieveParse(_)
ManageSieveParse(s) ==
    IF s.buf = <<>> THEN s
    ELSE IF s.readingLiteral /\ Len(s.buf) < s.literalSize THEN s
    ELSE LET a == IF s.readingLiteral
                  THEN [s EXCEPT
                          !.arg = @ \o SubSeq(s.buf, 1, s.literalSize),
                          !.buf = SubSeq(@, s.literalSize + 1, Len(@)),
                          !.readingLiteral = FALSE]
                  ELSE s
             l == Head(a.buf)
             b == [a EXCEPT !.arg = Append(@, l), !.buf = Tail(@)]
             c == IF l = "putscript {1+}"
                  THEN [b EXCEPT !.readingLiteral = TRUE, !.literalSize = 1]
                  ELSE IF l = "putscript {bad+}"
                  THEN Bye([b EXCEPT !.readingLiteral = TRUE,
                                     !.literalSize = 0], TRUE)
                  ELSE IF b.reader # 0
                  THEN [b EXCEPT !.commands[1].r = l, !.arg = <<>>]
                  ELSE NewCommand(b, CommandOf(b, Word(Head(b.arg))),
                                  Head(b.arg))
         IN  IF a.reserved THEN a
             ELSE IF NoLine(a) THEN LineTooLong(a)
             ELSE ManageSieveParse(runCommands(c))

\* Sieve::parse
RECURSIVE SieveParse(_)
SieveParse(s) ==
    IF s.buf = <<>> \/ s.reserved THEN s
    ELSE IF NoLine(s) THEN LineTooLong(s)
    ELSE LET l == Head(s.buf)
             c == CommandOf(s, Word(l))
             b == [s EXCEPT !.buf = Tail(@)]
             n == IF c = "Unknown" \/ (c = "StartTls" /\ s.hasTls)
                  THEN Enqueue([b EXCEPT !.received = @ + 1], "NO",
                               b.received + 1)
                  ELSE NewCommand(b, c, l)
         IN  SieveParse(runCommands(n))

\* The client's bytes arrive in the read buffer.
ClientSend(l) ==
    /\ sv.sent < MaxInput
    /\ sv' = [sv EXCEPT !.buf = Arrive(@, l), !.sent = @ + 1]
    /\ UNCHANGED <<pgvars, expungevars, compress, auth, ren, ss, msc, sel, abnf, sa, bf>>

\* react( Read )
SieveRead ==
    /\ sv.conn = "Connected"
    /\ sv.buf # <<>>
    /\ sv' = IF sv.server = "ManageSieve" THEN ManageSieveParse(sv)
             ELSE SieveParse(sv)
    /\ UNCHANGED <<pgvars, expungevars, compress, auth, ren, ss, msc, sel, abnf, sa, bf>>

\* react( Timeout )
SieveTimeout ==
    /\ sv.conn = "Connected"
    /\ sv' = Bye(sv, FALSE)
    /\ UNCHANGED <<pgvars, expungevars, compress, auth, ren, ss, msc, sel, abnf, sa, bf>>

\* The TLS engine or the database answers the command that waits for it,
\* and the command is executed again.
SieveAnswer(o) ==
    /\ sv.commands # <<>>
    /\ sv.commands[1].step = 1
    /\ sv.commands[1].ready = ""
    /\ ~sv.commands[1].done
    /\ sv.commands[1].cmd = "Authenticate"
          => sv.commands[1].m = "Authenticating"
    /\ sv' = SieveExecute([sv EXCEPT !.commands[1].ready = o])
    /\ UNCHANGED <<pgvars, expungevars, compress, auth, ren, ss, msc, sel, abnf, sa, bf>>

SieveInit ==
    /\ NoPg
    /\ NoExpunge
    /\ NoByteForwarder
    /\ NoSetActive
    /\ NoAbnfParser
    /\ NoSelector
    /\ NoManageSieveCommand
    /\ NoScript
    /\ NoCompress
    /\ NoAuthenticate
    /\ NoRename
    /\ \E server \in {"ManageSieve", "Sieve"},
          state \in {"Unauthorised", "Authorised"} :
          sv = [NewManageSieve EXCEPT
                  !.server = server, !.state = state,
                  !.user = IF state = "Authorised" THEN "u" ELSE ""]

SieveNext ==
    \/ \E l \in Input : ClientSend(l)
    \/ SieveRead
    \/ SieveTimeout
    \/ \E o \in {"ok", "failed"} : SieveAnswer(o)

SieveSpec == SieveInit /\ [][SieveNext]_vars

\* A ManageSieve connection from its banner on: the client logs in and
\* sends script commands before, during and after that.
SessionInput ==
    {"authenticate", "authenticate data", "listscripts", "starttls"}

SessionSend(l) ==
    /\ sv.sent < MaxInput
    /\ sv' = [sv EXCEPT !.buf = Arrive(@, l), !.sent = @ + 1]
    /\ UNCHANGED <<pgvars, expungevars, compress, auth, ren, ss, msc, sel, abnf, sa, bf>>

SessionInit ==
    /\ NoPg
    /\ NoExpunge
    /\ NoByteForwarder
    /\ NoSetActive
    /\ NoAbnfParser
    /\ NoSelector
    /\ NoManageSieveCommand
    /\ NoScript
    /\ NoCompress
    /\ NoAuthenticate
    /\ NoRename
    /\ sv = NewManageSieve

SessionNext ==
    \/ \E l \in SessionInput : SessionSend(l)
    \/ SieveRead
    \/ SieveTimeout
    \/ \E o \in {"ok", "failed"} : SieveAnswer(o)

SessionSpec == SessionInit /\ [][SessionNext]_vars

(***************************************************************************)
(* Part 7: parsing a Sieve script (sieve/sievescript.cpp,                  *)
(* sieve/sieveproduction.cpp).                                             *)
(*                                                                         *)
(* A script is a sequence of commands as SieveParser::commands() returns   *)
(* them; a command has an identifier, the extension names of a require,    *)
(* the mailbox of a fileinto (its name split at "/", so that a name that    *)
(* starts with "/" has an empty first part), the test of an if and         *)
(* possibly a block.                                                       *)
(* An error is a pair of the production it is set on and its kind; a       *)
(* production is named by its path <<i>> (i-th command), <<i, j>> (j-th    *)
(* command of its block), with 0 appended for its argument and -1 for its  *)
(* block.                                                                  *)
(***************************************************************************)
\* SieveProduction::supportedExtensions
supportedExtensions == {"envelope", "fileinto", "reject", "body", "subaddress"}

Command(i) ==
    [identifier |-> i, exts |-> {}, mailbox |-> <<>>, test |-> "",
     hasBlock |-> FALSE, block |-> <<>>]

Require(e) == [Command("require") EXCEPT !.exts = e]

FileInto(m) == [Command("fileinto") EXCEPT !.mailbox = m]

If(t, b) == [Command("if") EXCEPT !.test = t, !.hasBlock = TRUE, !.block = b]

\* The commands scripts are made of.
ScriptCommands ==
    {Require({e}) : e \in supportedExtensions}
    \cup {Require({"fileinto", "reject"}), Require({"vacation"})}
    \cup {Command("keep"), Command("reject"), FileInto(<<"in">>)}
    \cup {If(t, <<Command("keep")>>) :
             t \in {"true", "envelope", "body", "address :user"}}
    \cup {If("true", <<Require({"fileinto"})>>),
          If("true", <<FileInto(<<"in">>)>>),
          [Command("keep") EXCEPT !.hasBlock = TRUE,
                                  !.block = <<Require({"fileinto"})>>]}

\* SieveProduction::setError: the first error set on a production stays.
setError(errors, path, e) ==
    IF \E x \in errors : x[1] = path THEN errors
    ELSE errors \cup {<<path, e>>}

\* SieveProduction::error is not empty
hasError(errors, path) == \E x \in errors : x[1] = path

\* SieveTest::parse: the extension a test depends on.
TestRequires(t) ==
    CASE t = "envelope" -> {"envelope"}
      [] t = "body" -> {"body"}
      [] t = "address :user" -> {"subaddress"}
      [] OTHER -> {}

\* SieveCommand::parse: the extension a command depends on.
CommandRequires(c) ==
    IF c.identifier = "fileinto" THEN {"fileinto"} ELSE {}

requirePermitted_never(script, i) == FALSE

\* SieveScript::parse: require is permitted for the commands at the start
\* of the script that are require.
requirePermitted(script, i) ==
    \A j \in 1..i : script[j].identifier = "require"

\* SieveCommand::parse for a command without what it does to its block.  r
\* is [errors, needed], permitted is SieveCommandData::require.
ParseOne(r, c, path, permitted) ==
    LET e1 == IF c.identifier = "require" /\ ~permitted
              THEN setError(r.errors, path, "RequirePosition")
              ELSE r.errors
        e2 == IF c.identifier = "require"
                 /\ c.exts \ supportedExtensions # {}
              THEN setError(e1, Append(path, 0), "Unsupported")
              ELSE e1
        blk == c.identifier = "if"
        e3 == IF ~blk /\ c.hasBlock
              THEN setError(e2, Append(path, -1), "BlockNotUsed")
              ELSE IF blk /\ ~c.hasBlock
              THEN setError(e2, path, "BlockMissing")
              ELSE e2
    IN  [errors |-> e3,
         needed |-> r.needed \cup CommandRequires(c)
                       \cup (IF blk THEN TestRequires(c.test) ELSE {})]

\* SieveCommand::parse of the commands of a block, from the j-th on.
RECURSIVE ParseBlock(_, _, _, _)
ParseBlock(r, b, i, j) ==
    IF j > Len(b) THEN r
    ELSE ParseBlock(ParseOne(r, b[j], <<i, j>>, FALSE), b, i, j + 1)

\* The loop of SieveScript::parse that calls SieveCommand::parse.
RECURSIVE ParseCommands(_, _, _)
ParseCommands(r, script, i) ==
    IF i > Len(script) THEN r
    ELSE LET c == script[i]
             one == ParseOne(r, c, <<i>>, requirePermitted(script, i))
             all == IF c.identifier = "if" /\ c.hasBlock
                    THEN ParseBlock(one, c.block, i, 1)
                    ELSE one
         IN  ParseCommands(all, script, i + 1)

\* The loop of SieveScript::parse over the leading require commands: the
\* names that are needed are declared, the others are an error.
RECURSIVE CheckRequires(_, _, _)
CheckRequires(r, script, i) ==
    IF i > Len(script) \/ script[i].identifier # "require" THEN r
    ELSE LET unused == script[i].exts \ r.needed
             next ==
               IF hasError(r.errors, <<i>>) THEN r
               ELSE [r EXCEPT
                       !.declared = @ \cup (script[i].exts \cap r.needed),
                       !.errors = IF unused # {}
                                  THEN setError(@, <<i>>, "NotUsed")
                                  ELSE @]
         IN  CheckRequires(next, script, i + 1)

\* SieveScript::parse
SieveScriptParse(script) ==
    LET p == ParseCommands([errors |-> {}, needed |-> {}], script, 1)
        c == CheckRequires([errors |-> p.errors, needed |-> p.needed,
                            declared |-> {}], script, 1)
        e == IF Cardinality(c.needed) > Cardinality(c.declared)
                /\ script # <<>>
             THEN setError(c.errors, <<1>>, "Undeclared")
             ELSE c.errors
    IN  [errors |-> e, needed |-> p.needed]

\* script.parse( d->script.crlf() )
ScriptParse ==
    /\ ~ss.parsed
    /\ ss.script # <<>>
    /\ LET r == SieveScriptParse(ss.script)
       IN  ss' = [ss EXCEPT !.parsed = TRUE, !.errors = r.errors,
                            !.needed = r.needed]
    /\ UNCHANGED <<pgvars, expungevars, compress, auth, ren, sv, msc, sel, abnf, sa, bf>>

Scripts ==
    UNION {[1..n -> ScriptCommands] : n \in 1..MaxScript}

ScriptInit ==
    /\ NoPg
    /\ NoExpunge
    /\ NoByteForwarder
    /\ NoSetActive
    /\ NoAbnfParser
    /\ NoSelector
    /\ NoManageSieveCommand
    /\ NoCompress
    /\ NoAuthenticate
    /\ NoRename
    /\ NoSieve
    /\ \E s \in Scripts : ss = [NewSieveScript EXCEPT !.script = s]

ScriptNext == ScriptParse

ScriptSpec == ScriptInit /\ [][ScriptNext]_vars

(***************************************************************************)
(* Part 8: the ManageSieve commands PUTSCRIPT, SETACTIVE and DELETESCRIPT  *)
(* (sieve/managesievecommand.cpp).                                         *)
(*                                                                         *)
(* One command runs at a time.  A command enqueues its queries in a        *)
(* Transaction; the tables change when the Transaction commits, by all of  *)
(* its queries or, when it fails or is rolled back, by none.               *)
(***************************************************************************)
ScriptNames == {"a", "b"}

\* A query, by what its SQL does and the values bound to it.
Q(sql, name, script, mailbox) ==
    [sql |-> sql, name |-> name, script |-> script, mailbox |-> mailbox]

\* What one query does to the tables.
Apply(db, q) ==
    CASE q.sql = "insert script" ->
           [db EXCEPT !.scripts =
               @ \cup {[name |-> q.name, script |-> q.script,
                        active |-> FALSE]}]
      [] q.sql = "update script" ->
           [db EXCEPT !.scripts =
               {IF r.name = q.name THEN [r EXCEPT !.script = q.script]
                ELSE r : r \in @}]
      [] q.sql = "deactivate" ->
           [db EXCEPT !.scripts =
               {IF r.active THEN [r EXCEPT !.active = FALSE] ELSE r :
                   r \in @}]
      [] q.sql = "activate" ->
           [db EXCEPT !.scripts =
               {IF r.name = q.name \/ r.active
                THEN [r EXCEPT !.active = (r.name = q.name)]
                ELSE r : r \in @}]
      [] q.sql = "delete inactive" ->
           [db EXCEPT !.scripts =
               {r \in @ : ~(r.name = q.name /\ ~r.active)}]
      [] q.sql = "create mailbox" ->
           [db EXCEPT !.mailboxes[q.mailbox] = "exists"]
      [] OTHER -> db

\* What the queries of a Transaction do when it commits.
RECURSIVE ApplyAll(_, _)
ApplyAll(db, qs) ==
    IF qs = <<>> THEN db ELSE ApplyAll(Apply(db, Head(qs)), Tail(qs))

\* Transaction::enqueue
enqueue(t, q) == [t EXCEPT !.queries = Append(@, q)]

\* The tables after the Transaction of the command is done.
Committed(c, failed) ==
    IF failed THEN [c EXCEPT !.t.state = "Failed"]
    ELSE LET db == ApplyAll([scripts |-> c.scripts,
                             mailboxes |-> c.mailboxes], c.t.queries)
         IN  [c EXCEPT !.t.state = "Completed", !.scripts = db.scripts,
                       !.mailboxes = db.mailboxes]

\* ManageSieveCommand::execute, when the handler is through or no() has
\* been called: the command is done and answers NO if d->no is set, else OK.
respond(c, no) == [c EXCEPT !.no = no, !.done = TRUE, !.wait = ""]

\* A new ManageSieveCommand.
NewSieveCommand(command, name, script) ==
    [msc EXCEPT !.command = command, !.name = name, !.script = script,
                !.create = {}, !.t = NoTransaction, !.rows = {},
                !.step = 0, !.wait = "", !.no = "", !.ok = {},
                !.done = FALSE]

parseErrors_none(script) == {}

\* SieveScript::parseErrors after SieveScript::parse
parseErrors(script) == SieveScriptParse(script).errors

\* The mailbox a fileinto names: a name that starts with "/" is used as it
\* is, any other is below the home.
TargetName(n) == IF n[1] = "" THEN Tail(n) ELSE home \o n

\* while ( p && p != home ) p = p->parent(); p == home
RECURSIVE ancestorIsHome(_)
ancestorIsHome(p) ==
    IF p = home THEN TRUE
    ELSE IF p = <<>> THEN FALSE
    ELSE ancestorIsHome(SubSeq(p, 1, Len(p) - 1))

\* The loop of putScript over the commands of the script and of their
\* blocks: the mailboxes to create, or the NO for a mailbox that does not
\* exist and is not below the home.  No command has an error here, the
\* script has parsed.
RECURSIVE scanFileinto(_, _, _)
scanFileinto(stack, cr, mb) ==
    IF stack = <<>> THEN [no |-> "", create |-> cr]
    ELSE LET c == Head(stack)
             rest == Tail(stack) \o (IF c.hasBlock THEN c.block ELSE <<>>)
             m == TargetName(c.mailbox)
         IN  IF c.identifier # "fileinto"
             THEN scanFileinto(rest, cr, mb)
             ELSE IF mb[m] = "exists"
             THEN scanFileinto(rest, cr, mb)
             ELSE IF ancestorIsHome(m)
             THEN scanFileinto(rest, cr \cup {m}, mb)
             ELSE [no |-> "Script refers to mailbox outside home",
                   create |-> cr]

\* d->create.keys()
RECURSIVE keys(_)
keys(cr) ==
    IF cr = {} THEN <<>>
    ELSE LET m == CHOOSE m \in cr : TRUE
         IN  <<m>> \o keys(cr \ {m})

createMailboxes_none(t, cr) == t

\* The loop of putScript that calls Mailbox::create( d->t, user ) for each
\* mailbox of d->create.
createMailboxes(t, cr) ==
    [t EXCEPT !.queries =
        @ \o [i \in 1..Cardinality(cr) |->
                 Q("create mailbox", "", <<>>, keys(cr)[i])]]

\* The scripts PUTSCRIPT is given.
PutScripts ==
    {<<>>,
     <<Command("keep")>>,
     <<FileInto(<<"x">>)>>,
     <<Require({"fileinto"}), FileInto(<<"x">>)>>,
     <<Require({"fileinto"}), FileInto(<<"x">>), FileInto(<<"y">>)>>,
     <<Require({"fileinto"}), FileInto(<<"in">>)>>,
     <<Require({"fileinto"}), FileInto(<<"", "users", "o", "in">>)>>,
     <<Require({"fileinto"}), FileInto(<<"", "users", "o", "new">>)>>,
     <<Require({"fileinto"}), FileInto(<<"x">>),
       FileInto(<<"", "users", "o", "new">>)>>,
     <<Require({"fileinto"}), If("true", <<FileInto(<<"y">>)>>)>>}

\* putScript, called for the first time
PutScript(name, script) ==
    /\ msc.done
    /\ LET c == NewSieveCommand("putscript", name, script)
           f == scanFileinto(script, {}, msc.mailboxes)
           t == createMailboxes(
                    enqueue([NoTransaction EXCEPT !.state = "Executing"],
                            Q("select script", name, <<>>, <<>>)),
                    f.create)
       IN  msc' =
             IF script = <<>> THEN respond(c, "Script cannot be empty")
             ELSE IF parseErrors(script) # {}
             THEN respond(c, "parse errors")
             ELSE IF name = "" THEN respond(c, "")
             ELSE IF f.no # "" THEN respond([c EXCEPT !.create = f.create],
                                            f.no)
             ELSE [c EXCEPT !.create = f.create, !.t = t,
                            !.wait = "query"]
    /\ UNCHANGED <<pgvars, expungevars, compress, auth, ren, sv, ss, sel, abnf, sa, bf>>

\* putScript, called when the select is done: the script is updated or
\* inserted and the Transaction committed.  A Transaction whose select has
\* failed has failed, and execute() answers NO.
PutScriptSelected(failed) ==
    /\ ~msc.done
    /\ msc.command = "putscript"
    /\ msc.wait = "query"
    /\ LET rows == IF failed THEN {}
                   ELSE {r \in msc.scripts : r.name = msc.name}
           q == Q(IF rows # {} THEN "update script" ELSE "insert script",
                  msc.name, msc.script, <<>>)
           c == [msc EXCEPT !.rows = rows, !.step = 1,
                            !.t = enqueue(@, q), !.wait = "transaction"]
       IN  msc' = IF failed
                  THEN respond(Committed(c, TRUE), "Database failed")
                  ELSE c
    /\ UNCHANGED <<pgvars, expungevars, compress, auth, ren, sv, ss, sel, abnf, sa, bf>>

\* putScript, called when the Transaction is done
PutScriptCommitted(failed) ==
    /\ ~msc.done
    /\ msc.command = "putscript"
    /\ msc.wait = "transaction"
    /\ LET c == Committed(msc, failed)
       IN  msc' = respond([c EXCEPT !.ok = c.create],
                          IF failed THEN "Database failed" ELSE "")
    /\ UNCHANGED <<pgvars, expungevars, compress, auth, ren, sv, ss, sel, abnf, sa, bf>>

\* setActive, called for the first time
SetActive(name) ==
    /\ msc.done
    /\ LET c == NewSieveCommand("setactive", name, <<>>)
           t0 == [NoTransaction EXCEPT !.state = "Executing"]
           t == IF name = ""
                THEN enqueue(enqueue(t0, Q("deactivate", "", <<>>, <<>>)),
                             Q("select empty name", "", <<>>, <<>>))
                ELSE enqueue(t0, Q("select name", name, <<>>, <<>>))
       IN  msc' = [c EXCEPT !.t = t, !.wait = "query"]
    /\ UNCHANGED <<pgvars, expungevars, compress, auth, ren, sv, ss, sel, abnf, sa, bf>>

setActiveQueries_none(t, r) == t

\* setActive: the update that makes the script of the row the active one;
\* the row of SETACTIVE "" has an empty name and needs none.
setActiveQueries(t, r) ==
    IF r # "" THEN enqueue(t, Q("activate", r, <<>>, <<>>)) ELSE t

\* setActive, called when the select is done
SetActiveSelected(failed) ==
    /\ ~msc.done
    /\ msc.command = "setactive"
    /\ msc.wait = "query"
    /\ LET rows == IF failed THEN {}
                   ELSE IF msc.name = "" THEN {""}
                   ELSE {r.name : r \in {x \in msc.scripts :
                                            x.name = msc.name}}
           r == CHOOSE r \in rows : TRUE
           c == [msc EXCEPT !.rows = rows]
       IN  msc' =
             IF rows = {}
             THEN respond([c EXCEPT !.t.state = "Failed"],
                          "No such script")
             ELSE [c EXCEPT !.t = setActiveQueries(@, r),
                            !.wait = "transaction"]
    /\ UNCHANGED <<pgvars, expungevars, compress, auth, ren, sv, ss, sel, abnf, sa, bf>>

\* setActive, called when the Transaction is done
SetActiveCommitted(failed) ==
    /\ ~msc.done
    /\ msc.command = "setactive"
    /\ msc.wait = "transaction"
    /\ msc' = respond(Committed(msc, failed),
                      IF failed THEN "Couldn't activate script" ELSE "")
    /\ UNCHANGED <<pgvars, expungevars, compress, auth, ren, sv, ss, sel, abnf, sa, bf>>

\* deleteScript, called for the first time
DeleteScript(name) ==
    /\ msc.done
    /\ LET c == NewSieveCommand("deletescript", name, <<>>)
           t == enqueue(enqueue([NoTransaction EXCEPT
                                    !.state = "Executing"],
                                Q("select active", name, <<>>, <<>>)),
                        Q("delete inactive", name, <<>>, <<>>))
       IN  msc' = [c EXCEPT !.t = t, !.wait = "transaction"]
    /\ UNCHANGED <<pgvars, expungevars, compress, auth, ren, sv, ss, sel, abnf, sa, bf>>

deleteScriptReply_ok(failed, rows) == ""

\* deleteScript: the answer, from the Transaction and the row selected.
deleteScriptReply(failed, rows) ==
    IF failed THEN "Couldn't delete script"
    ELSE IF rows = {} THEN "No such script"
    ELSE IF \E r \in rows : r.active THEN "Can't delete active script"
    ELSE ""

\* deleteScript, called when the Transaction is done
DeleteScriptCommitted(failed) ==
    /\ ~msc.done
    /\ msc.command = "deletescript"
    /\ msc.wait = "transaction"
    /\ LET rows == IF failed THEN {}
                   ELSE {r \in msc.scripts : r.name = msc.name}
           c == [Committed(msc, failed) EXCEPT !.rows = rows]
       IN  msc' = respond(c, deleteScriptReply(failed, rows))
    /\ UNCHANGED <<pgvars, expungevars, compress, auth, ren, sv, ss, sel, abnf, sa, bf>>

StoreInit ==
    /\ NoPg
    /\ NoExpunge
    /\ NoByteForwarder
    /\ NoSetActive
    /\ NoAbnfParser
    /\ NoSelector
    /\ NoCompress
    /\ NoAuthenticate
    /\ NoRename
    /\ NoSieve
    /\ NoScript
    /\ msc = NewManageSieveCommand

StoreNext ==
    \/ \E name \in ScriptNames \cup {""}, script \in PutScripts :
          PutScript(name, script)
    \/ \E failed \in BOOLEAN : PutScriptSelected(failed)
    \/ \E failed \in BOOLEAN : PutScriptCommitted(failed)
    \/ \E name \in ScriptNames \cup {""} : SetActive(name)
    \/ \E failed \in BOOLEAN : SetActiveSelected(failed)
    \/ \E failed \in BOOLEAN : SetActiveCommitted(failed)
    \/ \E name \in ScriptNames : DeleteScript(name)
    \/ \E failed \in BOOLEAN : DeleteScriptCommitted(failed)

StoreSpec == StoreInit /\ [][StoreNext]_vars

(***************************************************************************)
(* Part 9: Selector::simplify (server/selector.cpp).                       *)
(*                                                                         *)
(* A Selector is a record of the fields of SelectorData that simplify()    *)
(* reads and writes; its children are a sequence of Selectors.  A          *)
(* MessageSet is the set of its numbers.                                   *)
(***************************************************************************)
MaxNot == 4

\* Selector::Selector( Field, Action, ... )
Selector(f, a, n, s, s8, s16) ==
    [f |-> f, a |-> a, n |-> n, s |-> s, s8 |-> s8, s16 |-> s16,
     children |-> <<>>]

\* Selector::Selector( Action ) followed by Selector::add for each child
Operator(a, c) ==
    [Selector("NoField", a, 0, {}, "", "") EXCEPT !.children = c]

\* SelectorData::copy
copy(t, o) ==
    [t EXCEPT !.f = o.f, !.a = o.a, !.s8 = o.s8, !.s16 = o.s16,
              !.s = o.s, !.n = o.n, !.children = o.children]

\* Flag::id is not 0: the flag name is known.
knownFlag(s8) == s8 = "\\seen"

\* simplify(): the leaves
simplifyLeaf(t) ==
    CASE t.a = "Larger" ->
           IF t.n = 0 \/ (t.n = 1 /\ t.f = "Modseq")
           THEN [t EXCEPT !.a = "All"] ELSE t
      [] t.a = "Contains" /\ t.f = "Uid" ->
           IF t.s = {} THEN [t EXCEPT !.a = "None"] ELSE t
      [] t.a = "Contains" /\ t.f \in {"InternalDate", "Sent"} ->
           [t EXCEPT !.a = "None"]
      [] t.a = "Contains" /\ t.f = "Header" ->
           IF t.s16 = "" /\ t.s8 = "" THEN [t EXCEPT !.a = "All"] ELSE t
      [] t.a = "Contains" /\ t.f = "Body" ->
           IF t.s16 = "" THEN [t EXCEPT !.a = "All"] ELSE t
      [] t.a = "Contains" /\ t.f = "Flags" ->
           IF t.s8 # "\\recent" /\ ~knownFlag(t.s8)
           THEN [t EXCEPT !.a = "None"] ELSE t
      [] OTHER -> t

\* The other of All and None: the child an And drops is All and the one
\* that decides it is None; for an Or it is the other way round.
Drops(a) == IF a = "And" THEN "All" ELSE "None"
Decides(a) == IF a = "And" THEN "None" ELSE "All"

\* simplify(): or (a or (b c)) -> or (a b c), ditto and.  The children of
\* a child of the same action are prepended one by one, and the child is
\* taken out.
RECURSIVE flatten(_, _, _)
flatten(a, front, rest) ==
    IF rest = <<>> THEN front
    ELSE LET p == Head(rest)
         IN  IF p.a = a
             THEN flatten(a,
                          [i \in 1..Len(p.children) |->
                              p.children[Len(p.children) + 1 - i]]
                             \o front,
                          Tail(rest))
             ELSE flatten(a, Append(front, p), Tail(rest))

RECURSIVE simplify(_)
RECURSIVE simplifyChildren(_, _, _)

\* simplify(): the loop of an And or an Or over its children, each of
\* which is simplified; kept are the children seen so far that stay.
simplifyChildren(t, kept, rest) ==
    IF rest = <<>> \/ t.a \notin {"And", "Or"}
    THEN [t EXCEPT !.children = kept \o rest]
    ELSE LET p == simplify(Head(rest))
         IN  IF p.a = Drops(t.a)
             THEN simplifyChildren(t, kept, Tail(rest))
             ELSE IF p.a = Decides(t.a)
             THEN simplifyChildren([t EXCEPT !.a = Decides(t.a)],
                                   Append(kept, p), Tail(rest))
             ELSE simplifyChildren(t, Append(kept, p), Tail(rest))

\* Selector::simplify
simplify(t) ==
    LET \* not (not x) -> x
        t1 == IF t.a = "Not" /\ t.children[1].a = "Not"
              THEN copy(t, t.children[1].children[1])
              ELSE t
        t2 == IF t1.a = "And"
              THEN LET l == simplifyChildren(t1, <<>>, t1.children)
                       e == IF l.a = "And" /\ l.children = <<>>
                            THEN [l EXCEPT !.a = "All"] ELSE l
                   IN  IF e.a # "And" THEN [e EXCEPT !.children = <<>>]
                       ELSE e
              ELSE IF t1.a = "Or"
              THEN LET l == simplifyChildren(t1, <<>>, t1.children)
                       e == IF l.a = "And" /\ l.children = <<>>
                            THEN [l EXCEPT !.a = "All"] ELSE l
                   IN  IF e.a # "Or" THEN [e EXCEPT !.children = <<>>]
                       ELSE e
              ELSE simplifyLeaf(t1)
        t3 == IF t2.a \in {"All", "None"} THEN [t2 EXCEPT !.f = "NoField"]
              ELSE t2
        t4 == [t3 EXCEPT !.children = flatten(t3.a, <<>>, @)]
    IN  IF t3.a \notin {"And", "Or"} THEN t3
        ELSE IF t3.children = <<>> THEN [t3 EXCEPT !.a = "All"]
        ELSE IF Len(t4.children) = 1 THEN copy(t4, t4.children[1])
        ELSE t4

\* The conditions of the trees.
Leaves ==
    {Selector("Rfc822Size", "Larger", 0, {}, "", ""),
     Selector("Rfc822Size", "Larger", 1, {}, "", ""),
     Selector("Uid", "Contains", 0, {}, "", ""),
     Selector("Uid", "Contains", 0, {1}, "", "")}

\* t below k Nots.
RECURSIVE Negated(_, _)
Negated(t, k) ==
    IF k = 0 THEN t ELSE Operator("Not", <<Negated(t, k - 1)>>)

\* A condition, or an And or an Or without children.
Conditions == Leaves \cup {Operator(a, <<>>) : a \in {"And", "Or"}}

\* A condition, or an And or an Or of one or two conditions.
Operands ==
    Conditions
    \cup {Operator(a, <<t>>) : a \in {"And", "Or"}, t \in Conditions}
    \cup {Operator(a, <<t, u>>) :
             a \in {"And", "Or"}, t \in Conditions, u \in Conditions}

\* An operand below up to MaxNot Nots.
Chains == {Negated(t, k) : t \in Operands, k \in 0..MaxNot}

\* The Selector trees: a chain, or an And or an Or of a chain, alone or
\* with a condition.
Trees ==
    Chains
    \cup {Operator(a, <<c>>) : a \in {"And", "Or"}, c \in Chains}
    \cup {Operator(a, <<c, l>>) :
             a \in {"And", "Or"}, c \in Chains, l \in Leaves}

\* simplify() is called
Simplify ==
    /\ sel.calls = 0
    /\ sel' = [sel EXCEPT !.simplified = simplify(sel.tree), !.calls = 1]
    /\ UNCHANGED <<pgvars, expungevars, compress, auth, ren, sv, ss, msc, abnf, sa, bf>>

\* simplify() is called once more
SimplifyAgain ==
    /\ sel.calls = 1
    /\ sel' = [sel EXCEPT !.again = simplify(sel.simplified), !.calls = 2]
    /\ UNCHANGED <<pgvars, expungevars, compress, auth, ren, sv, ss, msc, abnf, sa, bf>>

\* simplify() is called for the Not of the Not of the tree
SimplifyNotNot ==
    /\ ~sel.negated
    /\ sel' = [sel EXCEPT
                 !.notnot =
                    simplify(Operator("Not",
                                      <<Operator("Not", <<sel.tree>>)>>)),
                 !.negated = TRUE]
    /\ UNCHANGED <<pgvars, expungevars, compress, auth, ren, sv, ss, msc, abnf, sa, bf>>

\* An SQL condition: the constant "true" or "false", the condition of a
\* leaf, or conditions joined by "and" or "or" in brackets or after "not".
Sql(op, name, args) == [op |-> op, name |-> name, args |-> args]

\* The conditions among ws that are neither "true" nor "false".
RECURSIVE conditions(_)
conditions(ws) ==
    IF ws = <<>> THEN <<>>
    ELSE (IF Head(ws).op \in {"true", "false"} THEN <<>> ELSE <<Head(ws)>>)
         \o conditions(Tail(ws))

\* Selector::where: whereNoField for And, Or, Not, All and None; a leaf
\* with a field gives the condition of its field.  No leaf here searches
\* an address field, so the Or has no address to lift out.
RECURSIVE where(_)
where(t) ==
    LET ws == [i \in 1..Len(t.children) |-> where(t.children[i])]
        tr == \E i \in 1..Len(ws) : ws[i].op = "true"
        fa == \E i \in 1..Len(ws) : ws[i].op = "false"
    IN  CASE t.a \in {"And", "Or"} /\ t.children = <<>> ->
               Sql(IF t.a = "And" THEN "true" ELSE "false", "", <<>>)
          [] t.a = "And" ->
               IF fa THEN Sql("false", "", <<>>)
               ELSE Sql("and", "", conditions(ws))
          [] t.a = "Or" ->
               IF tr THEN Sql("false", "", <<>>)
               ELSE Sql("or", "", conditions(ws))
          [] t.a = "Not" ->
               IF ws[1].op = "true" THEN Sql("false", "", <<>>)
               ELSE IF ws[1].op = "false" THEN Sql("true", "", <<>>)
               ELSE Sql("not", "", <<ws[1]>>)
          [] t.a = "All" -> Sql("true", "", <<>>)
          [] t.a = "None" -> Sql("false", "", <<>>)
          [] OTHER ->
               Sql("leaf",
                   IF t.f = "Uid"
                   THEN (IF t.s = {} THEN "uid in ()" ELSE "uid in (1)")
                   ELSE (IF t.n = 0 THEN "rfc822size>0"
                         ELSE "rfc822size>1"),
                   <<>>)

\* where() is called
Where ==
    /\ ~sel.asked
    /\ sel' = [sel EXCEPT !.sql = where(sel.tree), !.asked = TRUE]
    /\ UNCHANGED <<pgvars, expungevars, compress, auth, ren, sv, ss, msc, abnf, sa, bf>>

SelectorInit ==
    /\ NoPg
    /\ NoExpunge
    /\ NoByteForwarder
    /\ NoSetActive
    /\ NoAbnfParser
    /\ NoCompress
    /\ NoAuthenticate
    /\ NoRename
    /\ NoSieve
    /\ NoScript
    /\ NoManageSieveCommand
    /\ \E t \in Trees : sel = [NewSelector EXCEPT !.tree = t]

SelectorNext == Simplify \/ SimplifyAgain \/ SimplifyNotNot \/ Where

SelectorSpec == SelectorInit /\ [][SelectorNext]_vars

(***************************************************************************)
(* Part 10: the marks of AbnfParser (abnf/abnfparser.cpp).                 *)
(***************************************************************************)
MaxAt == 3
MaxMark == 3

\* The stack has room for MaxDepth nested calls of setSibling.
MaxDepth == 6

\* AbnfParserData( other ): the cursor of other, no error, other as next
\* and the mark after other's.
AbnfParserData(other) ==
    [at |-> other.at, err |-> "", mark |-> other.mark + 1]

\* AbnfParser::step
AbnfStep(n) ==
    /\ abnf.d[1].at + n <= MaxAt
    /\ abnf' = [abnf EXCEPT !.d[1].at = @ + n, !.restored = 0]
    /\ UNCHANGED <<pgvars, expungevars, compress, auth, ren, sv, ss, msc,
                   sel, sa, bf>>

\* AbnfParser::setError
AbnfSetError(s) ==
    /\ abnf' = [abnf EXCEPT
                  !.d[1].err = IF @ = "" \/ s = "" THEN s ELSE @,
                  !.restored = 0]
    /\ UNCHANGED <<pgvars, expungevars, compress, auth, ren, sv, ss, msc,
                   sel, sa, bf>>

\* AbnfParser::mark: returns the mark of what was d
AbnfMark ==
    /\ Len(abnf.d) <= MaxMark
    /\ LET o == abnf.d[1]
       IN  abnf' = [abnf EXCEPT
                      !.d = <<AbnfParserData(o)>> \o @,
                      !.saved = [m \in 1..o.mark |->
                                    IF m = o.mark
                                    THEN [at |-> o.at, err |-> o.err]
                                    ELSE @[m]],
                      !.restored = 0]
    /\ UNCHANGED <<pgvars, expungevars, compress, auth, ren, sv, ss, msc,
                   sel, sa, bf>>

\* AbnfParser::restore()
AbnfRestoreLast ==
    /\ abnf' = [abnf EXCEPT
                  !.d = IF Len(@) > 1 THEN Tail(@) ELSE @,
                  !.saved = IF Len(abnf.d) > 1
                            THEN SubSeq(@, 1, abnf.d[2].mark) ELSE @,
                  !.restored = 0]
    /\ UNCHANGED <<pgvars, expungevars, compress, auth, ren, sv, ss, msc,
                   sel, sa, bf>>

\* The data restore( m ) stops at: the first along next whose mark is m,
\* or the last.
RECURSIVE find(_, _)
find(c, m) ==
    IF c[1].mark # m /\ Len(c) > 1 THEN find(Tail(c), m) ELSE c

\* AbnfParser::restore( m )
AbnfRestore(m) ==
    /\ LET c == find(abnf.d, m)
       IN  abnf' = IF c[1].mark = m
                   THEN [abnf EXCEPT
                           !.d = c,
                           !.saved = IF m <= Len(@) THEN SubSeq(@, 1, m)
                                     ELSE @,
                           !.restored = IF m \in DOMAIN abnf.saved
                                        THEN m ELSE 0]
                   ELSE [abnf EXCEPT !.restored = 0]
    /\ UNCHANGED <<pgvars, expungevars, compress, auth, ren, sv, ss, msc,
                   sel, sa, bf>>

AbnfInit ==
    /\ NoPg
    /\ NoExpunge
    /\ NoByteForwarder
    /\ NoSetActive
    /\ NoCompress
    /\ NoAuthenticate
    /\ NoRename
    /\ NoSieve
    /\ NoScript
    /\ NoManageSieveCommand
    /\ NoSelector
    /\ abnf = NewAbnfParser

AbnfNext ==
    \/ \E n \in 1..2 : AbnfStep(n)
    \/ \E s \in {"", "error"} : AbnfSetError(s)
    \/ AbnfMark
    \/ AbnfRestoreLast
    \/ \E m \in 1..(MaxMark + 1) : AbnfRestore(m)

AbnfSpec == AbnfInit /\ [][AbnfNext]_vars

(***************************************************************************)
(* Part 11: the three logins (imap/handlers/authenticate.cpp,              *)
(* sieve/managesievecommand.cpp, smtp/smtpauth.cpp).                       *)
(*                                                                         *)
(* One AUTHENTICATE or AUTH command of the protocol auth.protocol, on the  *)
(* record of part 4.  auth.authenticated is IMAP::authenticated(),         *)
(* SMTP::authenticated() or ManageSieve::setState( Authorised ); reserved  *)
(* is IMAP::reserve, ManageSieve::setReader or the SMTP input state Sasl.  *)
(* The mechanism is Anonymous or one that takes its login from the client  *)
(* (PLAIN), and its verdict is any of the three final states.              *)
(***************************************************************************)
Protocols == {"imap", "sieve", "smtp"}

LoginMechanisms == {"anonymous", "plain", "bogus"}

Verdicts == {"Succeeded", "Failed", "Terminated"}

\* SaslMechanism::readInitialResponse: the initial response is read if
\* there is one, else the mechanism sends its challenge and waits.
readInitialResponse(a) ==
    IF a.m # "AwaitingInitialResponse" THEN a
    ELSE IF a.r # "None" THEN [readResponse(a) EXCEPT !.r = "None"]
    ELSE [setState(setState(a, "IssuingChallenge"), "AwaitingResponse")
            EXCEPT !.challenges = @ + 1]

setStateAuthorised_always(a) == [a EXCEPT !.authenticated = TRUE]

\* ManageSieveCommand::authenticate: setUser and setState( Authorised )
setStateAuthorised(a) ==
    IF a.m = "Succeeded" THEN [a EXCEPT !.authenticated = TRUE] ELSE a

\* ManageSieveCommand::authenticate once the mechanism exists, and the OK
\* or NO that execute() sends when authenticate() returns true.
SieveDecide(a) ==
    LET b == IF a.m = "AwaitingResponse" /\ a.r # "None"
             THEN readResponse(a)
             ELSE a
    IN  IF ~done(b) THEN b
        ELSE finish(release(setStateAuthorised(b)),
                    IF b.m = "Succeeded" THEN "OK" ELSE "NO")

\* ManageSieveCommand::authenticate
SieveAuthenticate(a) ==
    IF a.state # "Executing" THEN a
    ELSE IF a.m # "None" THEN SieveDecide(a)
    ELSE LET b == create(a)
         IN  IF b.m = "None" THEN finish(b, "NO")
             ELSE SieveDecide(readInitialResponse(
                                  [b EXCEPT !.reserved = TRUE]))

\* SmtpAuth::execute once the mechanism exists.  Its loop is the loop of
\* Authenticate::execute, reading the line from the read buffer.
SmtpDecide(a) ==
    LET f == Feed(a)
        b == f.a
    IN  IF f.returned \/ b.m = "Authenticating" \/ ~done(b)
        THEN b
        ELSE finish(release(IF b.m = "Succeeded" /\ b.login # "anonymous"
                            THEN [b EXCEPT !.authenticated = TRUE]
                            ELSE b),
                    CASE b.m = "Succeeded" -> "235"
                      [] b.m = "Terminated" -> "501"
                      [] OTHER -> "535")

\* SmtpAuth::execute
SmtpAuthExecute(a) ==
    IF a.state # "Executing" THEN a
    ELSE IF a.m # "None" THEN SmtpDecide(a)
    ELSE IF a.authenticated THEN finish(a, "503")
    ELSE LET b == create(a)
         IN  IF b.m = "None" THEN finish(b, "504")
             ELSE LET c == [b EXCEPT !.reserved = TRUE]
                      e == IF c.m = "AwaitingInitialResponse"
                           THEN [(IF c.r # "None"
                                  THEN readResponse(c)
                                  ELSE setState(c, "IssuingChallenge"))
                                    EXCEPT !.r = "None"]
                           ELSE c
                  IN  SmtpDecide(e)

\* The command's execute() of the connection's protocol.
LoginExecute(a) ==
    CASE a.protocol = "imap" -> AuthenticateExecute(a)
      [] a.protocol = "sieve" -> SieveAuthenticate(a)
      [] OTHER -> SmtpAuthExecute(a)

\* The command has been parsed and is executed for the first time.
LoginStart ==
    /\ auth.state = "Executing"
    /\ auth.m = "None"
    /\ auth' = LoginExecute(auth)
    /\ UNCHANGED <<pgvars, expungevars, compress, ren, sv, ss, msc, sel, abnf, sa, bf>>

\* The client sends a line: the command that holds the input reads it and
\* is executed, otherwise the line is parsed as a command of its own.
LoginLine(l) ==
    /\ auth.lines < MaxLine
    /\ auth.m # "None" \/ auth.state = "Finished"
    /\ IF auth.reserved
       THEN auth' = LoginExecute([auth EXCEPT !.r = l, !.lines = @ + 1])
       ELSE auth' = [auth EXCEPT !.parsed = @ + 1, !.lines = @ + 1]
    /\ UNCHANGED <<pgvars, expungevars, compress, ren, sv, ss, msc, sel, abnf, sa, bf>>

\* The mechanism reaches its verdict and notifies the command.
LoginVerified(o) ==
    /\ auth.m = "Authenticating"
    /\ auth' = LoginExecute(setState(auth, o))
    /\ UNCHANGED <<pgvars, expungevars, compress, ren, sv, ss, msc, sel, abnf, sa, bf>>

\* An SMTP connection may already have a user; IMAP and ManageSieve only
\* accept the command on a connection without one.
LoginInit ==
    /\ NoPg
    /\ NoExpunge
    /\ NoByteForwarder
    /\ NoSetActive
    /\ NoAbnfParser
    /\ NoSelector
    /\ NoManageSieveCommand
    /\ NoScript
    /\ NoCompress
    /\ NoRename
    /\ NoSieve
    /\ \E p \in Protocols, t \in LoginMechanisms, ir \in {"None", "data"},
          ap \in BOOLEAN, u \in BOOLEAN :
          /\ u => p = "smtp"
          /\ ~ap => p = "imap"
          /\ auth = [NewAuthenticate EXCEPT !.protocol = p, !.t = t,
                                            !.r = ir, !.accessPermitted = ap,
                                            !.authenticated = u]

LoginNext ==
    \/ LoginStart
    \/ \E l \in Lines : LoginLine(l)
    \/ \E o \in Verdicts : LoginVerified(o)

LoginSpec == LoginInit /\ [][LoginNext]_vars

(***************************************************************************)
(* Part 12: SETACTIVE in two sessions of one user                          *)
(* (sieve/managesievecommand.cpp).                                         *)
(*                                                                         *)
(* The user has the scripts "a" and "b".  Each session runs one SETACTIVE  *)
(* in a Transaction of its own; the database executes the statements of    *)
(* the two Transactions in any interleaving, as PostgreSQL does at its     *)
(* default isolation level: a statement sees what is committed when it     *)
(* starts and its own Transaction's changes, a row locked or written by    *)
(* the other Transaction makes it wait, and after the wait the row is      *)
(* tested against the WHERE clause again.                                  *)
(***************************************************************************)
Sessions == {1, 2}

Existing == {"a", "b"}

\* What a statement of session s reads in column active of row n.
ActiveFor(w, s, n) ==
    IF n \in w.tx[s].on THEN TRUE
    ELSE IF n \in w.tx[s].off THEN FALSE
    ELSE n \in w.active

LockedByOther(w, s, n) == \E o \in Sessions \ {s} : n \in w.tx[o].locks

\* The first call of setActive(): the Transaction and its first queries.
SetActiveFirst(s, name) ==
    /\ sa.tx[s].pc = "none"
    /\ sa' = [sa EXCEPT !.tx[s].name = name, !.tx[s].pc = "begun"]
    /\ UNCHANGED <<pgvars, expungevars, compress, auth, ren, sv, ss, msc, sel, abnf, bf>>

\* The database executes the first queries: for SETACTIVE "" the update
\* that deactivates and "select ''::text as name", else
\* "select name from scripts where owner=$1 and name=$2 for update".
DbSelect(s) ==
    /\ sa.tx[s].pc = "begun"
    /\ LET t == sa.tx[s]
           targets == {n \in Existing : ActiveFor(sa, s, n)}
       IN  IF t.name = ""
           THEN /\ \A n \in targets : ~LockedByOther(sa, s, n)
                /\ sa' = [sa EXCEPT !.tx[s].locks = @ \cup targets,
                                    !.tx[s].off = @ \cup targets,
                                    !.tx[s].found = TRUE,
                                    !.tx[s].pc = "selected"]
           ELSE IF t.name \in Existing
           THEN /\ ~LockedByOther(sa, s, t.name)
                /\ sa' = [sa EXCEPT !.tx[s].locks = @ \cup {t.name},
                                    !.tx[s].found = TRUE,
                                    !.tx[s].pc = "selected"]
           ELSE sa' = [sa EXCEPT !.tx[s].pc = "selected"]
    /\ UNCHANGED <<pgvars, expungevars, compress, auth, ren, sv, ss, msc, sel, abnf, bf>>

\* setActive() when d->query is done: no row is "No such script" and a
\* rollback, a row with a name enqueues the update, and the Transaction
\* is committed.
SetActiveRow(s) ==
    /\ sa.tx[s].pc = "selected"
    /\ LET t == sa.tx[s]
       IN  IF ~t.found
           THEN sa' = [sa EXCEPT !.tx[s].pc = "done",
                                 !.tx[s].locks = {},
                                 !.tx[s].response = "NO"]
           ELSE sa' = [sa EXCEPT !.tx[s].pc =
                          IF t.name # "" THEN "update" ELSE "commit"]
    /\ UNCHANGED <<pgvars, expungevars, compress, auth, ren, sv, ss, msc, sel, abnf, bf>>

\* "update scripts set active=(name=$2) where owner=$1 and (name=$2 or
\* active='t')" starts: the rows that match in what the statement sees.
DbScan(s) ==
    /\ sa.tx[s].pc = "update"
    /\ sa' = [sa EXCEPT
                !.tx[s].cands = {n \in Existing :
                                   n = sa.tx[s].name \/ ActiveFor(sa, s, n)},
                !.tx[s].pc = "scanned"]
    /\ UNCHANGED <<pgvars, expungevars, compress, auth, ren, sv, ss, msc, sel, abnf, bf>>

\* The update writes the rows it found, once none of them is locked by the
\* other Transaction; a row that no longer matches is left alone.
DbUpdate(s) ==
    /\ sa.tx[s].pc = "scanned"
    /\ \A n \in sa.tx[s].cands : ~LockedByOther(sa, s, n)
    /\ LET t == sa.tx[s]
           still == {n \in t.cands : n = t.name \/ ActiveFor(sa, s, n)}
       IN  sa' = [sa EXCEPT
                    !.tx[s].locks = @ \cup still,
                    !.tx[s].on = (@ \cup (still \cap {t.name})),
                    !.tx[s].off = (@ \cup (still \ {t.name})) \ {t.name},
                    !.tx[s].pc = "commit"]
    /\ UNCHANGED <<pgvars, expungevars, compress, auth, ren, sv, ss, msc, sel, abnf, bf>>

\* The commit is done: the Transaction's changes become the table's, or it
\* has failed and none does; setActive() replies.
DbCommit(s, failed) ==
    /\ sa.tx[s].pc = "commit"
    /\ LET t == sa.tx[s]
       IN  sa' = [sa EXCEPT
                    !.active = IF failed THEN @ ELSE (@ \ t.off) \cup t.on,
                    !.tx[s].locks = {},
                    !.tx[s].pc = "done",
                    !.tx[s].response = IF failed THEN "NO" ELSE "OK"]
    /\ UNCHANGED <<pgvars, expungevars, compress, auth, ren, sv, ss, msc, sel, abnf, bf>>

\* At most one script is active when the sessions start.
SetActiveInit ==
    /\ NoPg
    /\ NoExpunge
    /\ NoByteForwarder
    /\ NoAbnfParser
    /\ NoSelector
    /\ NoManageSieveCommand
    /\ NoScript
    /\ NoCompress
    /\ NoAuthenticate
    /\ NoRename
    /\ NoSieve
    /\ \E act \in {{}, {"a"}, {"b"}} :
          sa = [NewSetActive EXCEPT !.active = act]

SetActiveNext ==
    \/ \E s \in Sessions, name \in Existing \cup {"", "z"} :
          SetActiveFirst(s, name)
    \/ \E s \in Sessions : DbSelect(s)
    \/ \E s \in Sessions : SetActiveRow(s)
    \/ \E s \in Sessions : DbScan(s)
    \/ \E s \in Sessions : DbUpdate(s)
    \/ \E s \in Sessions, failed \in BOOLEAN : DbCommit(s, failed)

SetActiveSpec == SetActiveInit /\ [][SetActiveNext]_vars

(***************************************************************************)
(* Part 13: ByteForwarder::setSibling (server/byteforwarder.cpp).          *)
(*                                                                         *)
(* Three forwarders, unpaired at first.  setSibling is called on one of    *)
(* them with another one or with null (0), again and again; a call runs    *)
(* statement by statement, and the calls it makes are frames on the stack. *)
(***************************************************************************)
Forwarders == {1, 2, 3}

\* The call x->setSibling( y ) begins.
Frame(x, y) == [this |-> x, sibling |-> y, pc |-> "test"]

\* A call is made from the innermost frame, which goes on at pc next.
CallFrom(b, next, f) ==
    IF Len(b.stack) >= MaxDepth
    THEN [b EXCEPT !.overflow = TRUE]
    ELSE [b EXCEPT !.stack = Append([@ EXCEPT ![Len(@)].pc = next], f)]

Return(b) == [b EXCEPT !.stack = SubSeq(@, 1, Len(@) - 1)]

\* One statement of the innermost call of ByteForwarder::setSibling.
setSiblingStep(b) ==
    LET f == b.stack[Len(b.stack)]
    IN  CASE f.pc = "test" ->
               IF b.s[f.this] = f.sibling THEN Return(b)
               ELSE IF b.s[f.this] # 0
               THEN CallFrom(b, "assign", Frame(b.s[f.this], 0))
               ELSE [b EXCEPT !.stack[Len(b.stack)].pc = "assign"]
          [] f.pc = "assign" ->
               LET c == [b EXCEPT !.s[f.this] = f.sibling]
               IN  IF f.sibling # 0
                   THEN CallFrom(c, "end", Frame(f.sibling, f.this))
                   ELSE Return(c)
          [] OTHER -> Return(b)

\* x->setSibling( y ) is called from outside.
SetSibling(x, y) ==
    /\ bf.stack = <<>>
    /\ ~bf.overflow
    /\ x # y
    /\ bf' = [bf EXCEPT !.stack = <<Frame(x, y)>>,
                        !.last = <<x, y, bf.s[x]>>]
    /\ UNCHANGED <<pgvars, expungevars, compress, auth, ren, sv, ss, msc, sel, abnf, sa>>

\* The innermost call executes its next statement.
SetSiblingRun ==
    /\ bf.stack # <<>>
    /\ ~bf.overflow
    /\ bf' = setSiblingStep(bf)
    /\ UNCHANGED <<pgvars, expungevars, compress, auth, ren, sv, ss, msc, sel, abnf, sa>>

ByteForwarderInit ==
    /\ NoPg
    /\ NoExpunge
    /\ NoAbnfParser
    /\ NoSelector
    /\ NoManageSieveCommand
    /\ NoScript
    /\ NoCompress
    /\ NoAuthenticate
    /\ NoRename
    /\ NoSieve
    /\ NoSetActive
    /\ bf = NewByteForwarder

ByteForwarderNext ==
    \/ \E x \in Forwarders, y \in Forwarders \cup {0} : SetSibling(x, y)
    \/ SetSiblingRun

ByteForwarderSpec == ByteForwarderInit /\ [][ByteForwarderNext]_vars

(***************************************************************************)
(* Properties of part 1.                                                   *)
(***************************************************************************)
Done(q) == query[q].state \in {"Completed", "Failed"}

\* The Queries a handle has sent and not seen finished, oldest first.
InFlight(h) == SelectSeq(sentLog[h], LAMBDA q : ~Done(q))

\* The list a Query waited in: Database::queries, or its Transaction's.
WaitedIn(q) ==
    IF query[q].txn = 0 \/ query[q].kind = "begin" THEN 0 ELSE query[q].txn

\* Queries are numbered as they are created, and are appended to their list
\* when they are created: the smaller number is the earlier in its list.
SentInQueueOrder ==
    \A h \in Handles : \A i, j \in 1..Len(sentLog[h]) :
        i < j /\ WaitedIn(sentLog[h][i]) = WaitedIn(sentLog[h][j])
            => sentLog[h][i] < sentLog[h][j]

FinishInSendOrder ==
    \A h \in Handles : \A i, j \in 1..Len(sentLog[h]) :
        i < j /\ Done(sentLog[h][j]) => Done(sentLog[h][i])

\* A step in which the reply m of the backend is handled.
ReplyStep(h) ==
    \E m \in {Msg("D", ""), Msg("C", ""), Msg("I", ""), Msg("E", "Error")} :
        RecvReply(h, m)

\* A step that leaves h open and changes a Query other than the oldest one
\* h has in flight.
ChangesAnother(h) ==
    /\ cstate'[h] # "Closing"
    /\ \E q \in Queries :
          /\ query'[q] # query[q]
          /\ InFlight(h) = <<>> \/ q # Head(InFlight(h))

\* No reply changes a Query other than the oldest one in flight.
RepliesGoToOldest ==
    \A h \in Handles : ChangesAnother(h) => ~ReplyStep(h)

\* C1: a handle sends the Queries of a list in the order of the list, every
\* data row, command completion and error goes to the oldest Query the
\* handle has sent and not seen finished, and so the Queries of one handle
\* finish in the order in which they were sent.
C1_Fifo ==
    [][SentInQueueOrder' /\ FinishInSendOrder' /\ RepliesGoToOldest]_vars

\* Two Queries were sent by handle 1, the first has a row and is complete,
\* the second is still executing.
C1_Witness ==
    /\ Len(sentLog[1]) = 2
    /\ query[sentLog[1][1]].state = "Completed"
    /\ query[sentLog[1][1]].rows
    /\ query[sentLog[1][2]].state = "Executing"

\* Has the backend ended Transaction t on handle h (its COMMIT or ROLLBACK
\* is done and the backend is idle again)?
EndedOn(h, t) ==
    /\ srv[h].tx = "Idle"
    /\ \E e \in Queries :
          /\ query[e].txn = t
          /\ query[e].kind = "end"
          /\ query[e].sentOn = h
          /\ Done(e)

\* The Queries sent in this step follow a Query of another Transaction only
\* if that Transaction had ended before the step.
DedicatedStep ==
    \A h \in Handles : \A j \in 2..Len(sentLog'[h]) :
        LET a == sentLog'[h][j - 1]
            b == sentLog'[h][j]
        IN  /\ j > Len(sentLog[h])
            /\ query'[a].txn # 0
            /\ query'[b].txn # query'[a].txn
            => EndedOn(h, query'[a].txn)

OneHandlePerTransaction ==
    \A a, b \in Queries :
        /\ query[a].txn # 0
        /\ query[a].txn = query[b].txn
        /\ query[a].sentOn # 0
        /\ query[b].sentOn # 0
        => query[a].sentOn = query[b].sentOn

NamedBefore(h, j) ==
    \E i \in 1..(j - 1) : query[sentLog[h][i]].name = query[sentLog[h][j]].name

\* C3: for every Query the handle writes Bind, Describe, Execute, Sync, and
\* a Parse before them exactly if the Query has no name or no Query of that
\* name was sent on the handle before.
C3_ParseOnce ==
    \A h \in Handles : \A j \in 1..Len(sentLog[h]) :
        LET q == sentLog[h][j]
            first == query[q].name = "" \/ ~NamedBefore(h, j)
        IN  query[q].wire =
                (IF first THEN <<"Parse">> ELSE <<>>)
                    \o <<"Bind", "Describe", "Execute", "Sync">>

\* Handle 1 has sent the prepared statement twice, the second time without
\* a Parse.
C3_Witness ==
    /\ Len(sentLog[1]) = 2
    /\ query[sentLog[1][1]].name = "s"
    /\ query[sentLog[1][2]].name = "s"
    /\ query[sentLog[1][1]].wire[1] = "Parse"
    /\ query[sentLog[1][2]].wire[1] = "Bind"

IdentMsgs == {Msg("E", "FatalIdentJail"), Msg("E", "FatalIdentOther")}

\* Steps in which handle h meets a connection error: a socket Error or
\* Close, a timeout during startup or with Queries in flight, or one of the
\* messages ms (malformed, unexpected, fatal).
ConnectionError(h, ms) ==
    \/ ReactError(h)
    \/ ReactClose(h)
    \/ /\ ReactTimeout(h)
       /\ ~pg[h].active \/ pg[h].startup \/ InFlight(h) # <<>>
    \/ \E m \in ms : RecvStartup(h, m) \/ RecvReply(h, m)

\* Every Query in flight on h fails in this step with one error string, its
\* owner is called, and the Connection is Closing afterwards.
AllInFlightFail(h) ==
    /\ cstate'[h] = "Closing"
    /\ \A q \in Range(InFlight(h)) :
          /\ query'[q].state = "Failed"
          /\ query'[q].err # ""
          /\ query'[q].notified = query[q].notified + 1
    /\ \A a, b \in Range(InFlight(h)) : query'[a].err = query'[b].err

ProtocolErrors == {Msg("bad", ""), Msg("X", ""), Msg("E", "Fatal")}

\* C4, as claimed: every connection error, every fatal server error among
\* them, fails the Queries in flight and leaves the Connection Closing.
C4_Original ==
    [][\A h \in Handles :
          ConnectionError(h, ProtocolErrors \cup IdentMsgs)
              => AllInFlightFail(h)]_vars

\* C4, amended: the same for every connection error but the fatal "IDENT
\* authentication failed" error, after which the handle reconnects or only
\* logs.
C4_ErrorFailsInFlight ==
    [][\A h \in Handles :
          ConnectionError(h, ProtocolErrors) => AllInFlightFail(h)]_vars

\* Handle 1 is Closing and the two Queries it had in flight have failed
\* with the same error and have been reported once.
C4_Witness ==
    /\ cstate[1] = "Closing"
    /\ Len(sentLog[1]) = 2
    /\ \A i \in 1..2 :
          /\ query[sentLog[1][i]].state = "Failed"
          /\ query[sentLog[1][i]].err = "Request timeout."
          /\ query[sentLog[1][i]].notified = 1

\* Has the owner of Transaction t been called: by the Transaction, or by one
\* of its Queries that has failed?
OwnerCalled(t) ==
    \/ txn[t].notified > 0
    \/ \E q \in Queries :
          query[q].txn = t /\ query[q].state = "Failed" /\ query[q].notified > 0

\* C5: when a handle that is bound to a Transaction is gone (Closing, or
\* shut down), the Transaction is Failed and its owner has been called.
C5_Claim ==
    \A h \in Handles :
        LET t == pg[h].transaction
        IN  t # 0 /\ (cstate[h] = "Closing" \/ ~pg[h].active)
            => txn[t].state = "Failed" /\ OwnerCalled(t)

\* A step in which handle h closes the connection and connects again.
Reconnect(h) ==
    /\ reconnects'[h] = reconnects[h] + 1
    /\ cstate'[h] = "Connecting"

NoReconnect(h) ==
    /\ reconnects'[h] = reconnects[h]
    /\ cstate'[h] # "Connecting"

\* C6, as claimed: every IDENT rejection on TCP makes the handle reconnect,
\* the first time, and log a Disaster and stay, the second time.
C6_Original ==
    [][\A h \in Handles : \A m \in IdentMsgs :
          RecvStartup(h, m) /\ ~unixSocket =>
              IF reconnects[h] = 0
              THEN Reconnect(h)
              ELSE NoReconnect(h) /\ disasters'[h] = 1]_vars

\* C6, amended: an IDENT rejection on TCP that names the configured jail
\* user, with the security setting on, makes the handle reconnect; this
\* happens once in the life of the handle, and the second such rejection
\* logs a Disaster and is followed by no reconnect.  Every other IDENT
\* rejection (another user, the security setting off, a Unix socket) logs
\* a Disaster and is followed by no reconnect.
C6_ReconnectOnce ==
    [][\A h \in Handles :
          /\ reconnects'[h] <= 1
          /\ RecvStartup(h, Msg("E", "FatalIdentJail"))
                /\ ~unixSocket /\ security =>
                IF reconnects[h] = 0
                THEN Reconnect(h)
                ELSE NoReconnect(h) /\ disasters'[h] = 1
          /\ \A m \in IdentMsgs :
                /\ RecvStartup(h, m)
                /\ m.arg = "FatalIdentOther" \/ unixSocket \/ ~security
                => NoReconnect(h) /\ disasters'[h] = 1]_vars

\* Handle 1 has reconnected once and has then logged the Disaster.
C6_Witness ==
    /\ ~unixSocket
    /\ security
    /\ reconnects[1] = 1
    /\ disasters[1] = 1
    /\ cstate[1] = "Connected"

IdleShutdown(h) ==
    /\ ReactTimeout(h)
    /\ pg[h].active
    /\ ~pg'[h].active
    /\ cstate'[h] # "Closing"

\* C8, as claimed: the idle timer shuts a handle down only if nothing is in
\* flight and a handle is left in the pool.
C8_Original ==
    [][\A h \in Handles :
          IdleShutdown(h) => InFlight(h) = <<>> /\ Len(handles') >= 1]_vars

\* C8, amended: the idle timer shuts a handle down only if nothing is in
\* flight and either a handle is left in the pool or the server is not on a
\* Unix socket: the last handle of a Unix-socket pool is never shut down
\* for idleness, the last handle of a TCP pool is.
C8_IdleShutdown ==
    [][\A h \in Handles :
          IdleShutdown(h) =>
              /\ InFlight(h) = <<>>
              /\ Len(handles') >= 1 \/ ~unixSocket]_vars

\* On a Unix socket, the idle timer has shut handle 1 down and handle 2 is
\* left in the pool.
C8_Witness ==
    /\ unixSocket
    /\ handles = <<2>>
    /\ cstate[1] = "Connected"
    /\ ~pg[1].active
    /\ ~pg[1].startup
    /\ InFlight(1) = <<>>

C10_Claim ==
    \A i \in 1..Len(enqueued) :
        /\ Placeholders(enqueued[i].sql) = BoundIndices(enqueued[i])
        /\ Len(enqueued[i].binds) = Cardinality(BoundIndices(enqueued[i]))

C13_Claim ==
    d.t = "Completed" =>
        /\ d.uids \subseteq deleted_messages
        /\ d.uids \cap DOMAIN mailbox_messages = {}

\* C14: the tagged OK of a COMPRESS DEFLATE is written with no deflate
\* filter on the write buffer and no inflate filter on the read buffer, and
\* everything written after it passes through a deflate filter.
C14_Claim ==
    \A i \in 1..Len(compress.out) :
        compress.out[i].cmd = "compress" /\ compress.out[i].resp = "OK" =>
            /\ compress.out[i].deflated = 0
            /\ compress.out[i].inflating = 0
            /\ \A j \in (i + 1)..Len(compress.out) :
                  compress.out[j].deflated >= 1


\* The input is reserved exactly while the command has a mechanism and is
\* not finished.
ReservedWhileAuthenticating(a) ==
    a.reserved <=> (a.m # "None" /\ a.state = "Executing")

\* C15: from the moment AUTHENTICATE has created its SASL mechanism until
\* the command finishes, the input stream is reserved for the command: a
\* line that arrives meanwhile is read by the command and no other command
\* is parsed from it; whenever the command finishes the reservation is
\* released.
C15_Reserved ==
    [][/\ ReservedWhileAuthenticating(auth')
       /\ auth.reserved => auth'.parsed = auth.parsed
       /\ auth'.state = "Finished" => ~auth'.reserved]_vars

\* The command has finished after the client answered a challenge, the
\* reservation is gone, and a later line was parsed as a command.
C15_Witness ==
    /\ auth.state = "Finished"
    /\ auth.challenges > 0
    /\ auth.m = "Succeeded"
    /\ ~auth.reserved
    /\ auth.parsed > 0

FinalStates == {"Succeeded", "Failed", "Terminated"}

\* The edges the state machine is said to have.
ClaimedEdges ==
    {<<"AwaitingInitialResponse", "IssuingChallenge">>,
     <<"IssuingChallenge", "AwaitingResponse">>,
     <<"AwaitingResponse", "IssuingChallenge">>,
     <<"AwaitingResponse", "Authenticating">>}
    \cup {<<"Authenticating", f>> : f \in FinalStates}

\* C16 as stated: a mechanism changes state only along the claimed edges.
C16_Original == auth.edges \subseteq ClaimedEdges

\* C16: a mechanism changes state only along the claimed edges, or from
\* AwaitingInitialResponse to Authenticating when the command carries an
\* initial response, or from AwaitingResponse to Terminated when the client
\* answers a challenge with "*"; a final state is never left.
C16_Edges ==
    /\ auth.edges \subseteq
         ClaimedEdges \cup {<<"AwaitingInitialResponse", "Authenticating">>,
                            <<"AwaitingResponse", "Terminated">>}
    /\ <<"AwaitingInitialResponse", "Authenticating">> \in auth.edges
         => auth.challenges = 0
    /\ <<"AwaitingResponse", "Terminated">> \in auth.edges
         => auth.challenges > 0 /\ auth.response = "BAD"
    /\ \A e \in auth.edges : e[1] \notin FinalStates

\* A client has cancelled the exchange with "*" after the challenge, and
\* the command has finished.
C16_Witness ==
    /\ auth.state = "Finished"
    /\ <<"AwaitingInitialResponse", "IssuingChallenge">> \in auth.edges
    /\ <<"AwaitingResponse", "Terminated">> \in auth.edges

\* The row of the mailboxes table with this id.
RowOf(rows, id) == CHOOSE r \in rows : r.id = id

\* A deleted mailbox row other than id holds the name n.
DeletedRowAt(rows, n, id) ==
    \E r \in rows : r.name = n /\ r.deleted /\ r.id # id

\* The RENAME has been carried out in this step.
Renamed ==
    ren.state = "Executing" /\ ren'.state = "Finished" /\ ren'.response = "OK"

\* C17: RENAME changes the UIDVALIDITY of a renamed mailbox, in the table
\* and in the Mailbox tree, only if a deleted mailbox row held the
\* destination name before; in every other rename the mailbox arrives
\* under its new name with the UIDVALIDITY it had, and a RENAME that is
\* refused or fails changes no row.
C17_UidvalidityKept ==
    [][/\ Renamed =>
            \A i \in 1..Len(ren.d.renames) :
              LET p == ren.d.renames[i]
                  id == ren.mailboxes[p.from].id
                  old == RowOf(ren.rows, id)
                  new == RowOf(ren'.rows, id)
              IN  /\ new.name = p.toName
                  /\ ren'.mailboxes[p.toName].id = id
                  /\ ren'.mailboxes[p.toName].uidvalidity = new.uidvalidity
                  /\ ~DeletedRowAt(ren.rows, p.toName, id)
                       => new.uidvalidity = old.uidvalidity
       /\ ~Renamed => ren'.rows = ren.rows]_vars

\* A mailbox and its child have been renamed: the mailbox took the name of
\* a deleted mailbox and has a new UIDVALIDITY, the child took a free name
\* and kept its own.
C17_Witness ==
    /\ ren.state = "Finished"
    /\ ren.response = "OK"
    /\ Len(ren.d.renames) = 2
    /\ LET p == ren.d.renames[1]
           c == ren.d.renames[2]
           idp == ren.mailboxes[p.toName].id
           idc == ren.mailboxes[c.toName].id
       IN  /\ DeletedRowAt(ren.before, p.toName, idp)
           /\ RowOf(ren.rows, idp).uidvalidity
                 # RowOf(ren.before, idp).uidvalidity
           /\ ~DeletedRowAt(ren.before, c.toName, idc)
           /\ RowOf(ren.rows, idc).uidvalidity
                 = RowOf(ren.before, idc).uidvalidity

\* The ids of the OK and NO responses written, in the order written.
Answers == SelectSeq(sv.out, LAMBDA x : x.r \in {"OK", "NO"})

\* A sequence of ids never goes back.
InOrder(ids) ==
    \A i, j \in 1..Len(ids) : i < j => ids[i].id <= ids[j].id

\* C18: ManageSieve commands are executed one at a time in the order they
\* were received: only the oldest unfinished command has been started, the
\* executions started in the order of receipt, and the OK/NO responses are
\* written in that order.
C18_Claim ==
    /\ \A i \in 2..Len(sv.commands) : sv.commands[i].step = 0
    /\ \A i, j \in 1..Len(sv.executed) :
          i < j => sv.executed[i] < sv.executed[j]
    /\ InOrder(Answers)

\* C19: once LOGOUT has run on a ManageSieve connection, no command
\* received after it, or queued behind it, is executed or answered.
C19_NothingAfterLogout ==
    sv.server = "ManageSieve" /\ sv.logout # 0 =>
        /\ \A i \in 1..Len(sv.executed) : sv.executed[i] <= sv.logout
        /\ \A i \in 1..Len(Answers) : Answers[i].id <= sv.logout
        /\ sv.conn = "Closing"

\* LOGOUT was the second command and has run; a third command is in the
\* list and has not been started.
C19_Witness ==
    /\ sv.server = "ManageSieve"
    /\ sv.logout = 2
    /\ \E i \in 1..Len(sv.commands) :
          sv.commands[i].id = 3 /\ sv.commands[i].step = 0

\* C20: when the peer has sent an overlong line or a literal whose size is
\* no legal number, a BYE has been written, the connection is Closing and
\* no command has been created since.
C20_Claim ==
    sv.violation # -1 =>
        /\ \E i \in 1..Len(sv.out) : sv.out[i].r = "BYE"
        /\ sv.conn = "Closing"
        /\ sv.created = sv.violation

\* The require-position error is set on the production at this path.
PositionError(path) == <<path, "RequirePosition">> \in ss.errors

\* The i-th command is a require and every command before it is one.
Leading(i) == \A j \in 1..i : ss.script[j].identifier = "require"

\* The paths of the require commands that do not precede every other
\* command at the top level: those after another command and those inside
\* a block.
Misplaced ==
    {<<i>> : i \in {k \in 1..Len(ss.script) :
                      ss.script[k].identifier = "require" /\ ~Leading(k)}}
    \cup UNION {{<<i, j>> : j \in {k \in 1..Len(ss.script[i].block) :
                       ss.script[i].block[k].identifier = "require"}} :
                 i \in 1..Len(ss.script)}

\* The paths of the commands that SieveCommand::parse looks at: the top
\* level and the blocks of if.
Examined ==
    {<<i>> : i \in 1..Len(ss.script)}
    \cup UNION {{<<i, j>> : j \in 1..Len(ss.script[i].block)} :
                 i \in {k \in 1..Len(ss.script) :
                          ss.script[k].identifier = "if"}}

\* C26 as stated: every require that follows another command or stands
\* inside a block is reported with the require-position error.
C26_Original ==
    ss.parsed => \A p \in Misplaced : PositionError(p)

\* C26: the require-position error is reported exactly for the require
\* commands that follow another command at the top level or stand inside
\* the block of an if; a block attached to a command that takes none is
\* itself reported as an error and the commands in it are not examined.
C26_RequirePosition ==
    ss.parsed =>
        /\ \A p \in Examined : PositionError(p) <=> p \in Misplaced
        /\ \A p \in Misplaced \ Examined :
              /\ ~PositionError(p)
              /\ <<<<p[1], -1>>, "BlockNotUsed">> \in ss.errors

\* A script that starts with a require, has a require after another
\* command and a require inside the block of an if.
C26_Witness ==
    /\ ss.parsed
    /\ Leading(1)
    /\ ~PositionError(<<1>>)
    /\ \E i \in 2..Len(ss.script) :
          i \in {p[1] : p \in {q \in Misplaced : Len(q) = 1}}
          /\ PositionError(<<i>>)
    /\ \E p \in Misplaced \cap Examined : Len(p) = 2 /\ PositionError(p)

\* The extension a command uses: fileinto and reject are extensions, and
\* so are the envelope and body tests and the :user address part.
Uses(c) ==
    (IF c.identifier \in {"fileinto", "reject"} THEN {c.identifier} ELSE {})
    \cup (IF c.identifier = "if" THEN TestRequires(c.test) ELSE {})

\* The extensions the parsed script uses.
Used ==
    UNION {Uses(ss.script[i]) : i \in 1..Len(ss.script)}
    \cup UNION {UNION {Uses(ss.script[i].block[j]) :
                         j \in 1..Len(ss.script[i].block)} :
                 i \in 1..Len(ss.script)}

\* The extensions the require commands of the script name.
Named ==
    UNION {ss.script[i].exts : i \in 1..Len(ss.script)}
    \cup UNION {UNION {ss.script[i].block[j].exts :
                         j \in 1..Len(ss.script[i].block)} :
                 i \in 1..Len(ss.script)}

ExtensionError ==
    \E x \in ss.errors : x[2] \in {"NotUsed", "Undeclared", "Unsupported"}

\* C27: parsing a script reports an extension error exactly when the
\* extensions named by its require commands differ from the extensions the
\* script uses.
C27_Claim == ss.parsed => (ExtensionError <=> Named # Used)

(***************************************************************************)
(* Properties of part 8.                                                   *)
(***************************************************************************)
\* The script of the command is stored under the name of the command.
Stored(c) == \E r \in c.scripts : r.name = c.name /\ r.script = c.script

\* C21: PUTSCRIPT stores a script only if it parsed without errors: for a
\* script with parse errors the command is done at once with NO and the
\* error text, and the stored scripts and the mailboxes stay as they were.
C21_ParseErrorsStoreNothing ==
    [][(msc'.command = "putscript"
          /\ SieveScriptParse(msc'.script).errors # {})
       => /\ msc'.done
          /\ msc'.no = "parse errors"
          /\ msc'.scripts = msc.scripts
          /\ msc'.mailboxes = msc.mailboxes]_vars

\* A PUTSCRIPT of a script with parse errors has been answered while a
\* script is stored.
C21_Witness ==
    /\ msc.command = "putscript"
    /\ msc.done
    /\ msc.name \in ScriptNames
    /\ SieveScriptParse(msc.script).errors # {}
    /\ msc.no = "parse errors"
    /\ msc.scripts # {}

\* C22: a step of PUTSCRIPT either leaves the stored scripts and the
\* mailboxes as they were, and then it does not answer OK to a PUTSCRIPT
\* with a name, or it answers OK and every mailbox of d->create exists
\* and the script is stored.
C22_CreateAndStoreTogether ==
    [][msc'.command = "putscript"
       => \/ /\ msc'.scripts = msc.scripts
             /\ msc'.mailboxes = msc.mailboxes
             /\ ~(msc'.done /\ msc'.no = "" /\ msc'.name # "")
          \/ /\ msc'.done
             /\ msc'.no = ""
             /\ Stored(msc')
             /\ \A m \in msc'.create :
                   msc'.mailboxes[m] = "exists"]_vars

\* A PUTSCRIPT has been answered OK after two mailboxes were created.
C22_Witness ==
    /\ msc.command = "putscript"
    /\ msc.done
    /\ msc.no = ""
    /\ Cardinality(msc.create) = 2
    /\ \A m \in msc.create : msc.mailboxes[m] = "exists"
    /\ Stored(msc)

\* The mailboxes the fileinto commands of a script and of its blocks name.
RECURSIVE Targets(_)
Targets(stack) ==
    IF stack = <<>> THEN {}
    ELSE (IF Head(stack).identifier = "fileinto"
          THEN {TargetName(Head(stack).mailbox)} ELSE {})
         \cup Targets(Head(stack).block) \cup Targets(Tail(stack))

\* C23: a PUTSCRIPT with a name whose script has a fileinto to a mailbox
\* that is not below the home of the user is answered NO, also when that
\* mailbox exists.
C23_Claim ==
    (/\ msc.command = "putscript"
     /\ msc.done
     /\ msc.name # ""
     /\ \E m \in Targets(msc.script) : ~ancestorIsHome(m))
    => msc.no # ""

\* The names of the active scripts.
Active(c) == {r.name : r \in {x \in c.scripts : x.active}}

\* C24: after SETACTIVE with a name has been answered OK the script of
\* that name is the one active script; after SETACTIVE "" has been
\* answered OK no script is active.
C24_ExactlyOneActive ==
    (msc.command = "setactive" /\ msc.done /\ msc.no = "")
    => Active(msc) = (IF msc.name = "" THEN {} ELSE {msc.name})

\* SETACTIVE with a name has been answered OK while two scripts are stored.
C24_Witness ==
    /\ msc.command = "setactive"
    /\ msc.done
    /\ msc.no = ""
    /\ msc.name # ""
    /\ Cardinality(msc.scripts) = 2
    /\ Active(msc) = {msc.name}

C28_Claim == sel.calls = 2 => sel.again = sel.simplified

\* C29: simplifying Not(Not(x)) gives the same tree as simplifying x, for
\* every x, also for an x that starts with Not(Not(...)).
C29_Claim ==
    (sel.calls > 0 /\ sel.negated) => sel.notnot = sel.simplified

(***************************************************************************)
(* Properties of part 10.                                                  *)
(***************************************************************************)
\* C30: after restore( m ) for a mark m that mark() has returned and that
\* is still valid, pos() and error() are what they were when mark()
\* returned m, however often restore( m ) is called and whatever was
\* parsed in between.
C30_Claim ==
    abnf.restored # 0
    => /\ abnf.d[1].at = abnf.saved[abnf.restored].at
       /\ abnf.d[1].err = abnf.saved[abnf.restored].err

\* The truth values of the conditions that depend on the message.
Assignments == [{"uid in (1)", "rfc822size>1"} -> BOOLEAN]

\* The condition of a leaf for a message: every message is larger than 0
\* and none is in the empty set.
LeafHolds(name, v) ==
    CASE name = "rfc822size>0" -> TRUE
      [] name = "uid in ()" -> FALSE
      [] OTHER -> v[name]

\* The Selector t matches the message for which the conditions are v: an
\* And without children matches and an Or without children does not, as
\* in whereNoField.
RECURSIVE Matches(_, _)
Matches(t, v) ==
    CASE t.a = "All" -> TRUE
      [] t.a = "None" -> FALSE
      [] t.a = "Not" -> ~Matches(t.children[1], v)
      [] t.a = "And" ->
           \A i \in 1..Len(t.children) : Matches(t.children[i], v)
      [] t.a = "Or" ->
           \E i \in 1..Len(t.children) : Matches(t.children[i], v)
      [] OTHER -> LeafHolds(where(t).name, v)

\* C31: the simplified tree matches exactly the messages the tree
\* matches, whatever the truth values of the conditions are.
C31_Claim ==
    sel.calls > 0
    => \A v \in Assignments :
          Matches(sel.simplified, v) = Matches(sel.tree, v)

\* The SQL condition e holds for the message for which the conditions
\* are v.
RECURSIVE Holds(_, _)
Holds(e, v) ==
    CASE e.op = "true" -> TRUE
      [] e.op = "false" -> FALSE
      [] e.op = "not" -> ~Holds(e.args[1], v)
      [] e.op = "and" -> \A i \in 1..Len(e.args) : Holds(e.args[i], v)
      [] e.op = "or" -> \E i \in 1..Len(e.args) : Holds(e.args[i], v)
      [] OTHER -> LeafHolds(e.name, v)

\* C32: the condition of an And holds exactly when the conditions of all
\* its children hold, and that of an Or exactly when the condition of one
\* of its children holds, also for children whose condition is "true" or
\* "false".
C32_Claim ==
    (sel.asked /\ sel.tree.a \in {"And", "Or"})
    => \A v \in Assignments :
          Holds(sel.sql, v) =
             (IF sel.tree.a = "And"
              THEN \A i \in 1..Len(sel.tree.children) :
                      Holds(where(sel.tree.children[i]), v)
              ELSE \E i \in 1..Len(sel.tree.children) :
                      Holds(where(sel.tree.children[i]), v))

(***************************************************************************)
(* Further properties of part 2.                                           *)
(***************************************************************************)
\* C33: when the Transaction of EXPUNGE has failed the command answers NO,
\* the session still has all its messages, and the in-memory nextModSeq
\* has not been raised, so that nothing has been sent to the other
\* servers.
C33_Claim ==
    d.t = "Failed"
    => /\ cmd.response = "NO"
       /\ sessionMsgs = Uids
       /\ ocSent = <<>>

(***************************************************************************)
(* Properties of part 11.                                                  *)
(***************************************************************************)
Negative == {"NO", "BAD", "501", "535"}

\* C34: a connection becomes authenticated (IMAP authenticated(), SMTP
\* authenticated(), ManageSieve state Authorised) only in the step in which
\* its command finishes with the mechanism in state Succeeded; a command
\* that finishes with the mechanism Failed or Terminated leaves the
\* connection unauthenticated and is answered negatively.
C34_Claim ==
    [][/\ (auth'.authenticated /\ ~auth.authenticated)
            => auth'.m = "Succeeded" /\ auth'.state = "Finished"
       /\ (auth'.state = "Finished" /\ auth'.m \in {"Failed", "Terminated"})
            => ~auth'.authenticated /\ auth'.response \in Negative]_vars

\* A ManageSieve AUTHENTICATE that read a response line has made its
\* connection Authorised.
C34_Witness ==
    /\ auth.authenticated
    /\ auth.m = "Succeeded"
    /\ auth.state = "Finished"
    /\ auth.protocol = "sieve"
    /\ auth.lines >= 1

(***************************************************************************)
(* Further properties of part 6.                                           *)
(***************************************************************************)
ScriptWords ==
    {"havespace", "putscript", "setactive", "listscripts", "getscript",
     "deletescript"}

ScriptCommandNames ==
    {"HaveSpace", "PutScript", "SetActive", "ListScripts", "GetScript",
     "DeleteScript"}

C36_Claim == Cardinality(sa.active) <= 1

(***************************************************************************)
(* Further properties of part 1.                                           *)
(***************************************************************************)
\* The handle is connected and in use.
Usable(h) == pg[h].active /\ cstate[h] = "Connected"

\* The handle does not send (d->sendingCopy) although the copy-in Query it
\* paused for is no longer in flight.
Held(h) ==
    /\ Usable(h)
    /\ pg[h].sendingCopy
    /\ \A i \in 1..Len(pg[h].queries) : ~query[pg[h].queries[i]].copy

\* C37: a handle that has paused sending for a copy-in Query resumes once
\* that Query has finished, whether it was answered with CopyInResponse or
\* with an error: it does not stay paused for ever.
C37_Claim ==
    \A h \in Connectable : Held(h) ~> (~pg[h].sendingCopy \/ ~Usable(h))

\* The Queries in flight on h before the i-th that carry the Parse for nm.
ParseInFlight(h, i, nm) ==
    \E j \in 1..(i - 1) :
        /\ query[pg[h].queries[j]].name = nm
        /\ "Parse" \in Range(query[pg[h].queries[j]].wire)

\* C38: on a handle in use, a name is in the prepared-statement cache only
\* if the backend has parsed the statement or the Parse for it is still in
\* flight, and every Query in flight that was sent with a Bind for a named
\* statement and without a Parse names a statement that the backend has
\* parsed or whose Parse is in flight before it.
C38_Claim ==
    \A h \in Connectable :
        Usable(h) /\ srv[h].phase \in {"exec", "sync"} =>
            /\ \A nm \in pg[h].prepared :
                  \/ nm \in srv[h].parsed
                  \/ ParseInFlight(h, Len(pg[h].queries) + 1, nm)
            /\ \A i \in 1..Len(pg[h].queries) :
                  LET q == query[pg[h].queries[i]]
                  IN  q.name # "" /\ "Parse" \notin Range(q.wire)
                         => \/ q.name \in srv[h].parsed
                            \/ ParseInFlight(h, i, q.name)

\* C39: "Line too long" is sent, and the connection closed for it, only
\* when the read buffer starts with more bytes than the line limit without
\* a line end: not for the beginning of a line that is shorter than the
\* limit, and not for a buffer that is empty after a literal.
C39_Claim == sv.tooLong \in {"none", "overlong"}

(***************************************************************************)
(* Properties of part 13.                                                  *)
(***************************************************************************)
\* C40: a call of setSibling( x ) returns, whatever the pairing was (its
\* nested calls do not use up the stack), and when it has returned the
\* forwarder's sibling is x, x's sibling is the forwarder, and the
\* forwarder's former sibling has none.
C40_Claim ==
    /\ ~bf.overflow
    /\ bf.stack = <<>> /\ bf.last # <<>> =>
          LET x == bf.last[1]
              y == bf.last[2]
              old == bf.last[3]
          IN  /\ bf.s[x] = y
              /\ y # 0 => bf.s[y] = x
              /\ old \notin {0, y} => bf.s[old] = 0
====
